---------------------------- MODULE Spec2Model ----------------------------
(***************************************************************************)
(* A model of the truck/drone tabu-search engine: routes (routes.rs),      *)
(* neighborhood operators (routes.rs, neighborhoods.rs), solutions and the *)
(* tabu-search driver (solutions.rs).                                      *)
(*                                                                         *)
(* Conventions.  Rust vectors are modelled as TLA+ sequences; the helper   *)
(* operators below take the 0-based indices of the source, so loop bounds  *)
(* and index arithmetic read as in the Rust code.  Rust ranges lo..hi are  *)
(* half open.  A panic (failed assert!, unwrap on None, panic!) is the     *)
(* value PANIC, which the model propagates.                                *)
(***************************************************************************)
EXTENDS Integers, Sequences, FiniteSets, TLC

VARIABLES
    CONFIG,         \* config.rs CONFIG: the immutable run configuration
    PENALTY_COEFF,  \* solutions.rs PENALTY_COEFF: the four global penalty coefficients
    route_i,        \* route-level runs: the receiver `self` of a Route operation
    route_j,        \* second route (`other`, `other_x`)
    route_k,        \* third route (`other_y`)
    op,             \* the last operation applied
    results,        \* the Vec of candidates that operation returned
    pc,             \* where the run of main is
    failure,        \* the panic that ended the run, if any
    init,           \* the locals of Solution::initialize
    root,           \* tabu_search: the solution it was given
    current,        \* tabu_search: the solution being searched
    result,         \* tabu_search: the best solution found so far
    elite_set,
    tabu_lists,
    neighborhood_idx,
    iteration,
    last_improved_iteration,
    adaptive,       \* tabu_search: _AdaptiveState
    edge_records,
    hyper,          \* tabu_search: tabu_size, adaptive_iterations, reset_after
    old_current,
    flags,          \* tabu_search: end_of_segment and reset of the running iteration
    repair          \* the locals of destroy_and_repair

routeVars == <<route_i, route_j, route_k, op, results>>

runVars == <<pc, failure, init, root, current, result, elite_set, tabu_lists, neighborhood_idx,
             iteration, last_improved_iteration, adaptive, edge_records, hyper, old_current,
             flags, repair>>

vars == <<CONFIG, PENALTY_COEFF, routeVars, runVars>>

-----------------------------------------------------------------------------
(* Bounds of the model. *)

\* Largest number of customers of an instance in route-level runs.
MaxCustomers == 4

-----------------------------------------------------------------------------
(* Vec helpers, 0-based like the source. *)

At(s, i) == s[i + 1]

Swap(s, i, j) == [s EXCEPT ![i + 1] = s[j + 1], ![j + 1] = s[i + 1]]

\* Vec::insert(i, x)
Insert(s, i, x) == SubSeq(s, 1, i) \o <<x>> \o SubSeq(s, i + 1, Len(s))

\* Vec::remove(i)
Remove(s, i) == SubSeq(s, 1, i) \o SubSeq(s, i + 2, Len(s))

\* s[a..b]
Slice(s, a, b) == SubSeq(s, a + 1, b)

\* Vec::pop (the popped value is At(s, Len(s) - 1))
Pop(s) == SubSeq(s, 1, Len(s) - 1)

\* s[a..b].rotate_right(k)
RotateRight(s, a, b, k) ==
    SubSeq(s, 1, a) \o Slice(s, b - k, b) \o Slice(s, a, b - k) \o SubSeq(s, b + 1, Len(s))

\* s[a..b].rotate_left(k)
RotateLeft(s, a, b, k) ==
    SubSeq(s, 1, a) \o Slice(s, a + k, b) \o Slice(s, a, a + k) \o SubSeq(s, b + 1, Len(s))

\* for i in lo..hi { st = Body(i, st) }
\* (the loop state of one iteration is computed before the next one starts)
RECURSIVE ForRange(_, _, _, _)
ForRange(lo, hi, Body(_, _), st0) ==
    IF lo >= hi THEN st0
    ELSE LET st1 == Body(lo, st0)
         IN IF st1 = st1 THEN ForRange(lo + 1, hi, Body, st1) ELSE st1

\* for i in (lo..hi).rev() { st = Body(i, st) }
RECURSIVE ForRangeRev(_, _, _, _)
ForRangeRev(lo, hi, Body(_, _), st0) ==
    IF lo >= hi THEN st0
    ELSE LET st1 == Body(hi - 1, st0)
         IN IF st1 = st1 THEN ForRangeRev(lo, hi - 1, Body, st1) ELSE st1

\* s[a..b].reverse()
ReverseRange(s, a, b) ==
    ForRange(a, b, LAMBDA n, acc : [acc EXCEPT ![n + 1] = s[a + b - n]], s)

Max(a, b) == IF a > b THEN a ELSE b

Range(s) == {s[n] : n \in 1..Len(s)}

\* tabu.sort(): the ascending rearrangement of a Vec<usize>
RECURSIVE SortVec(_)
SortVec(s) ==
    IF Len(s) = 0 THEN <<>>
    ELSE LET m == CHOOSE n \in 1..Len(s) : \A k \in 1..Len(s) : s[n] <= s[k]
         IN <<s[m]>> \o SortVec(Remove(s, m - 1))

-----------------------------------------------------------------------------
(* Routes (routes.rs). A Route is [cls, customers]; its cached metrics are  *)
(* functions of the customers, computed once by the constructor.           *)

PANIC == [cls |-> "Panic", customers |-> <<>>]

\* Option::None for a route
NONE == [cls |-> "None", customers |-> <<>>]

IsRoute(r) == r.cls \in {"Truck", "Drone"}

\* The asserts of _RouteData::_construct; indexing distances and demands
\* panics on a customer beyond customers_count.
ValidCustomers(customers) ==
    /\ Len(customers) >= 1
    /\ customers[1] = 0
    /\ customers[Len(customers)] = 0
    /\ Len(customers) >= 3
    /\ \A n \in 1..Len(customers) : customers[n] \in 0..CONFIG.customers_count

\* RouteNew without the length assertion
RouteNewNoLength(cls, customers) ==
    IF /\ Len(customers) >= 1
       /\ customers[1] = 0
       /\ customers[Len(customers)] = 0
    THEN [cls |-> cls, customers |-> customers]
    ELSE PANIC

\* TruckRoute::new / DroneRoute::new
RouteNew(cls, customers) ==
    IF ValidCustomers(customers) THEN [cls |-> cls, customers |-> customers] ELSE PANIC

\* Route::single
RouteSingle(cls, customer) == RouteNew(cls, <<0, customer, 0>>)

\* Route::push
RoutePush(r, customer) ==
    RouteNew(r.cls, Insert(r.customers, Len(r.customers) - 1, customer))

\* Route::pop
RoutePop(r) == RouteNew(r.cls, Remove(r.customers, Len(r.customers) - 2))

\* TruckRoute::_servable / DroneRoute::_servable
Servable(cls, customer) == IF cls = "Truck" THEN TRUE ELSE CONFIG.dronable[customer]

\* TruckRoute::single_customer / DroneRoute::single_customer
SingleCustomer(cls) == IF cls = "Truck" THEN FALSE ELSE CONFIG.single_drone_route

\* TruckRoute::single_route / DroneRoute::single_route
SingleRoute(cls) == IF cls = "Truck" THEN CONFIG.single_truck_route ELSE FALSE

\* swap(&mut a[i], &mut b[j]): the new a
SwapA(a, i, b, j) == [a EXCEPT ![i + 1] = b[j + 1]]

\* SwapB that leaves b[j] as it is
SwapBKeep(a, i, b, j) == b

\* swap(&mut a[i], &mut b[j]): the new b
SwapB(a, i, b, j) == [b EXCEPT ![j + 1] = a[i + 1]]

\* One element of the Vec returned by inter_route / inter_route_extract
Cand2(ri, rj, tabu) == [i |-> ri, j |-> rj, tabu |-> tabu]

\* Route::inter_route_extract::<T>
InterRouteExtract(r, T, neighborhood) ==
    LET customers == r.customers
        size == CASE neighborhood = "Move10" -> 1
                  [] neighborhood = "Move20" -> 2
                  [] OTHER -> 0
        Body(i, st) ==
            IF Servable(T, At(customers, i))
            THEN LET q1 == Append(st.queue, At(customers, i))
                     q2 == IF Len(q1) > size THEN Tail(q1) ELSE q1
                 IN IF Len(q2) = size
                    THEN LET original == Slice(customers, 0, i - size + 1)
                                             \o Slice(customers, i + 1, Len(customers))
                             route == <<0>> \o q2 \o <<0>>
                             tabu == Slice(customers, i - size + 1, i + 1)
                         IN [queue |-> q2,
                             results |-> Append(st.results,
                                 Cand2(RouteNew(r.cls, original), RouteNew(T, route), tabu))]
                    ELSE [queue |-> q2, results |-> st.results]
            ELSE [queue |-> <<>>, results |-> st.results]
    IN IF size = 0 \/ Len(customers) - 2 <= size
       THEN <<>>
       ELSE ForRange(1, Len(customers) - 1, Body, [queue |-> <<>>, results |-> <<>>]).results

\* A Move10 whose one candidate leaves both routes as they are
InterMove10Nowhere(ri, rj) == <<Cand2(ri, rj, <<>>)>>

\* Route::inter_route, Neighborhood::Move10
InterMove10(ri, rj) ==
    LET customers_i == ri.customers
        customers_j == rj.customers
        length_i == Len(customers_i)
        length_j == Len(customers_j)
        Outer(idx_i, st) ==
            IF ~Servable(rj.cls, At(customers_i, idx_i))
            THEN st
            ELSE LET removed == At(st.bi, idx_i)
                     bi == Remove(st.bi, idx_i)
                     new_i == IF length_i = 3 THEN NONE ELSE RouteNew(ri.cls, bi)
                     tabu == <<removed>>
                     Inner(idx_j, s) ==
                         [bj |-> Swap(s.bj, idx_j, idx_j + 1),
                          results |-> Append(s.results, Cand2(new_i, RouteNew(rj.cls, s.bj), tabu))]
                     inner == ForRange(1, length_j, Inner,
                                  [bj |-> Insert(st.bj, 1, removed), results |-> st.results])
                 IN [bi |-> Insert(bi, idx_i, removed),
                     bj |-> Pop(inner.bj),
                     results |-> inner.results]
    IN ForRange(1, length_i - 1, Outer,
                [bi |-> customers_i, bj |-> customers_j, results |-> <<>>]).results

\* Route::inter_route, Neighborhood::Move11
InterMove11(ri, rj) ==
    LET customers_i == ri.customers
        customers_j == rj.customers
        length_i == Len(customers_i)
        length_j == Len(customers_j)
        Outer(idx_i, st) ==
            IF ~Servable(rj.cls, At(st.bi, idx_i))
            THEN st
            ELSE LET Inner(idx_j, s) ==
                         IF ~Servable(ri.cls, At(s.bj, idx_j))
                         THEN s
                         ELSE LET bi == SwapA(s.bi, idx_i, s.bj, idx_j)
                                  bj == SwapB(s.bi, idx_i, s.bj, idx_j)
                                  tabu == <<At(customers_i, idx_i), At(customers_j, idx_j)>>
                              IN [bi |-> SwapA(bi, idx_i, bj, idx_j),
                                  bj |-> SwapB(bi, idx_i, bj, idx_j),
                                  results |-> Append(s.results,
                                      Cand2(RouteNew(ri.cls, bi), RouteNew(rj.cls, bj), tabu))]
                 IN ForRange(1, length_j - 1, Inner, st)
    IN ForRange(1, length_i - 1, Outer,
                [bi |-> customers_i, bj |-> customers_j, results |-> <<>>]).results

\* Route::inter_route, Neighborhood::Move20
InterMove20(ri, rj) ==
    LET customers_i == ri.customers
        customers_j == rj.customers
        length_i == Len(customers_i)
        length_j == Len(customers_j)
        Outer(idx_i, st) ==
            IF ~Servable(rj.cls, At(st.bi, idx_i)) \/ ~Servable(rj.cls, At(st.bi, idx_i + 1))
            THEN st
            ELSE LET removed_x == At(st.bi, idx_i)
                     bi1 == Remove(st.bi, idx_i)
                     removed_y == At(bi1, idx_i)
                     bi == Remove(bi1, idx_i)
                     new_i == IF length_i = 4 THEN NONE ELSE RouteNew(ri.cls, bi)
                     tabu == <<removed_x, removed_y>>
                     Inner(idx_j, s) ==
                         [bj |-> Swap(Swap(s.bj, idx_j + 1, idx_j + 2), idx_j, idx_j + 1),
                          results |-> Append(s.results, Cand2(new_i, RouteNew(rj.cls, s.bj), tabu))]
                     inner == ForRange(1, length_j, Inner,
                                  [bj |-> Insert(Insert(st.bj, 1, removed_x), 2, removed_y),
                                   results |-> st.results])
                 IN [bi |-> Insert(Insert(bi, idx_i, removed_x), idx_i + 1, removed_y),
                     bj |-> Pop(Pop(inner.bj)),
                     results |-> inner.results]
    IN ForRange(1, length_i - 2, Outer,
                [bi |-> customers_i, bj |-> customers_j, results |-> <<>>]).results

\* Route::inter_route, Neighborhood::Move21
InterMove21(ri, rj) ==
    LET customers_i == ri.customers
        customers_j == rj.customers
        length_i == Len(customers_i)
        length_j == Len(customers_j)
        Outer(idx_i, st) ==
            IF ~Servable(rj.cls, At(st.bi, idx_i)) \/ ~Servable(rj.cls, At(st.bi, idx_i + 1))
            THEN st
            ELSE LET bi1 == SwapA(st.bi, idx_i, st.bj, 1)
                     bj1 == SwapB(st.bi, idx_i, st.bj, 1)
                     bj2 == Insert(bj1, 2, At(bi1, idx_i + 1))
                     bi2 == Remove(bi1, idx_i + 1)
                     Inner(idx_j, s) ==
                         LET pushed ==
                                 IF Servable(ri.cls, At(s.bj, idx_j))
                                 THEN Append(s.results,
                                          Cand2(RouteNew(ri.cls, s.bi), RouteNew(rj.cls, s.bj),
                                                <<At(s.bj, idx_j), At(s.bj, idx_j + 1), At(s.bi, idx_i)>>))
                                 ELSE s.results
                             bi3 == SwapA(s.bi, idx_i, s.bj, idx_j + 2)
                             bj3 == SwapB(s.bi, idx_i, s.bj, idx_j + 2)
                         IN [bi |-> bi3,
                             bj |-> Swap(Swap(bj3, idx_j + 1, idx_j + 2), idx_j, idx_j + 1),
                             results |-> pushed]
                     inner == ForRange(1, length_j - 1, Inner,
                                  [bi |-> bi2, bj |-> bj2, results |-> st.results])
                     bi4 == SwapA(inner.bi, idx_i, inner.bj, length_j - 1)
                     bj4 == SwapB(inner.bi, idx_i, inner.bj, length_j - 1)
                 IN [bi |-> Insert(bi4, idx_i + 1, At(bj4, Len(bj4) - 1)),
                     bj |-> Pop(bj4),
                     results |-> inner.results]
    IN ForRange(1, length_i - 2, Outer,
                [bi |-> customers_i, bj |-> customers_j, results |-> <<>>]).results

\* Route::inter_route, Neighborhood::Move22
InterMove22(ri, rj) ==
    LET customers_i == ri.customers
        customers_j == rj.customers
        length_i == Len(customers_i)
        length_j == Len(customers_j)
        Outer(idx_i, st) ==
            IF ~Servable(rj.cls, At(st.bi, idx_i)) \/ ~Servable(rj.cls, At(st.bi, idx_i + 1))
            THEN st
            ELSE LET Inner(idx_j, s) ==
                         IF ~Servable(ri.cls, At(s.bj, idx_j))
                                \/ ~Servable(ri.cls, At(s.bj, idx_j + 1))
                         THEN s
                         ELSE LET bi1 == SwapA(s.bi, idx_i, s.bj, idx_j)
                                  bj1 == SwapB(s.bi, idx_i, s.bj, idx_j)
                                  bi == SwapA(bi1, idx_i + 1, bj1, idx_j + 1)
                                  bj == SwapB(bi1, idx_i + 1, bj1, idx_j + 1)
                                  tabu == <<At(bi, idx_i), At(bi, idx_i + 1),
                                            At(bj, idx_j), At(bj, idx_j + 1)>>
                                  bi2 == SwapA(bi, idx_i, bj, idx_j)
                                  bj2 == SwapB(bi, idx_i, bj, idx_j)
                              IN [bi |-> SwapA(bi2, idx_i + 1, bj2, idx_j + 1),
                                  bj |-> SwapB(bi2, idx_i + 1, bj2, idx_j + 1),
                                  results |-> Append(s.results,
                                      Cand2(RouteNew(ri.cls, bi), RouteNew(rj.cls, bj), tabu))]
                 IN ForRange(1, length_j - 2, Inner, st)
    IN ForRange(1, length_i - 2, Outer,
                [bi |-> customers_i, bj |-> customers_j, results |-> <<>>]).results

\* Route::inter_route, Neighborhood::TwoOpt
InterTwoOpt(ri, rj) ==
    LET customers_i == ri.customers
        customers_j == rj.customers
        length_i == Len(customers_i)
        length_j == Len(customers_j)
        \* while offset > 1 && servable(buffer[offset - 1]) { offset -= 1 }
        Offset(customers, cls) ==
            LET F[m \in 1..Len(customers) - 1] ==
                    IF m > 1 /\ Servable(cls, At(customers, m - 1)) THEN F[m - 1] ELSE m
            IN F[Len(customers) - 1]
        offset_i == Offset(customers_i, rj.cls)
        offset_j == Offset(customers_j, ri.cls)
        Outer(idx_i, acc) ==
            ForRange(offset_j, length_j - 1,
                LAMBDA idx_j, a :
                    LET bi == Slice(customers_i, 0, idx_i) \o Slice(customers_j, idx_j, length_j)
                        bj == Slice(customers_j, 0, idx_j) \o Slice(customers_i, idx_i, length_i)
                        tabu == <<At(bi, idx_i), At(bj, idx_j)>>
                    IN Append(a, Cand2(RouteNew(ri.cls, bi), RouteNew(rj.cls, bj), tabu)),
                acc)
    IN ForRange(offset_i, length_i - 1, Outer, <<>>)

\* Route::inter_route
InterRoute(ri, rj, neighborhood) ==
    CASE neighborhood = "Move10" -> InterMove10(ri, rj)
      [] neighborhood = "Move11" -> InterMove11(ri, rj)
      [] neighborhood = "Move20" -> InterMove20(ri, rj)
      [] neighborhood = "Move21" -> InterMove21(ri, rj)
      [] neighborhood = "Move22" -> InterMove22(ri, rj)
      [] neighborhood = "TwoOpt" -> InterTwoOpt(ri, rj)
      [] OTHER -> <<Cand2(PANIC, PANIC, <<>>)>>

\* One element of the Vec returned by inter_route_3
Cand3(ri, rj, rk, tabu) == [i |-> ri, j |-> rj, k |-> rk, tabu |-> tabu]

\* Route::inter_route_3, Neighborhood::EjectionChain
InterRoute3(ri, rj, rk) ==
    LET customers_i == ri.customers
        length_i == Len(customers_i)
        length_j == Len(rj.customers)
        length_k == Len(rk.customers)
        Outer(idx_i, st) ==
            IF ~Servable(rj.cls, At(st.bi, idx_i))
            THEN st
            ELSE LET remove_x == At(st.bi, idx_i)
                     bi == Remove(st.bi, idx_i)
                     Middle(idx_j, s) ==
                         IF ~Servable(rk.cls, At(s.bj, idx_j))
                         THEN s
                         ELSE LET bk1 == Insert(s.bk, 1, At(s.bj, idx_j))
                                  bj1 == [s.bj EXCEPT ![idx_j + 1] = remove_x]
                                  Inner(idx_k, t) ==
                                      LET tabu == <<remove_x, At(t.bk, idx_k)>>
                                          ptr_i == IF Len(bi) = 2 THEN NONE ELSE RouteNew(ri.cls, bi)
                                      IN [bk |-> Swap(t.bk, idx_k, idx_k + 1),
                                          results |-> Append(t.results,
                                              Cand3(ptr_i, RouteNew(rj.cls, bj1),
                                                    RouteNew(rk.cls, t.bk), tabu))]
                                  inner == ForRange(1, length_k, Inner,
                                               [bk |-> bk1, results |-> s.results])
                              IN [bj |-> [bj1 EXCEPT ![idx_j + 1] = At(inner.bk, Len(inner.bk) - 1)],
                                  bk |-> Pop(inner.bk),
                                  results |-> inner.results]
                     middle == ForRange(1, length_j - 1, Middle,
                                   [bj |-> st.bj, bk |-> st.bk, results |-> st.results])
                 IN [bi |-> Insert(bi, idx_i, remove_x),
                     bj |-> middle.bj,
                     bk |-> middle.bk,
                     results |-> middle.results]
    IN ForRange(1, length_i - 1, Outer,
                [bi |-> customers_i, bj |-> rj.customers, bk |-> rk.customers,
                 results |-> <<>>]).results

\* The (route, tabu) pairs pushed by intra_route
Push1(st, cls, buffer, tabu) ==
    [buffer |-> buffer, results |-> Append(st.results, [route |-> RouteNew(cls, buffer), tabu |-> tabu])]

\* Route::intra_route, Neighborhood::Move10
IntraMove10(r) ==
    LET customers == r.customers
        length == Len(customers)
        Right(i, st) ==
            LET inner == ForRange(i, length - 2,
                             LAMBDA j, s : Push1(s, r.cls, Swap(s.buffer, j, j + 1), <<At(customers, i)>>),
                             st)
            IN [inner EXCEPT !.buffer = RotateRight(inner.buffer, i, length - 1, 1)]
        Left(i, st) ==
            LET inner == ForRangeRev(2, i + 1,
                             LAMBDA j, s : Push1(s, r.cls, Swap(s.buffer, j - 1, j), <<At(customers, i)>>),
                             st)
            IN [inner EXCEPT !.buffer = RotateLeft(inner.buffer, 1, i + 1, 1)]
        first == ForRange(1, length - 2, Right, [buffer |-> customers, results |-> <<>>])
    IN ForRange(2, length - 1, Left, first).results

\* Route::intra_route, Neighborhood::Move11
IntraMove11(r) ==
    LET customers == r.customers
        length == Len(customers)
        Outer(i, st) ==
            LET inner == ForRange(i, length - 2,
                             LAMBDA j, s :
                                 Push1(s, r.cls, Swap(Swap(s.buffer, j, j + 1), i, j),
                                       <<At(customers, i), At(customers, j + 1)>>),
                             st)
            IN [inner EXCEPT !.buffer = Swap(inner.buffer, i, length - 2)]
    IN ForRange(1, length - 2, Outer, [buffer |-> customers, results |-> <<>>]).results

\* Route::intra_route, Neighborhood::Move20
IntraMove20(r) ==
    LET customers == r.customers
        length == Len(customers)
        Right(i, st) ==
            LET inner == ForRange(i + 1, length - 2,
                             LAMBDA j, s :
                                 Push1(s, r.cls, Swap(Swap(s.buffer, j, j + 1), j - 1, j),
                                       <<At(customers, i), At(customers, i + 1)>>),
                             st)
            IN [inner EXCEPT !.buffer = RotateRight(inner.buffer, i, length - 1, 2)]
        Left(i, st) ==
            LET inner == ForRangeRev(1, i,
                             LAMBDA j, s :
                                 Push1(s, r.cls, Swap(Swap(s.buffer, j + 1, j + 2), j, j + 2),
                                       <<At(customers, i), At(customers, i + 1)>>),
                             st)
            IN [inner EXCEPT !.buffer = RotateLeft(inner.buffer, 1, i + 2, 2)]
        first == ForRange(1, length - 3, Right, [buffer |-> customers, results |-> <<>>])
    IN ForRange(2, length - 2, Left, first).results

\* Route::intra_route, Neighborhood::Move21
IntraMove21(r) ==
    LET customers == r.customers
        length == Len(customers)
        Right(i, st) ==
            LET inner == ForRange(i, length - 3,
                             LAMBDA j, s :
                                 Push1(s, r.cls,
                                       Swap(Swap(Swap(s.buffer, j + 1, j + 2), j, j + 1), i, j),
                                       <<At(customers, i), At(customers, i + 1), At(customers, j + 2)>>),
                             st)
            IN [inner EXCEPT !.buffer =
                    RotateRight(Swap(inner.buffer, i, length - 3), i + 1, length - 1, 1)]
        Left(i, st) ==
            LET inner == ForRangeRev(1, i,
                             LAMBDA j, s :
                                 Push1(s, r.cls,
                                       Swap(Swap(Swap(s.buffer, j + 1, j + 2), j, j + 2), j + 2, i + 1),
                                       <<At(customers, i), At(customers, i + 1), At(customers, j)>>),
                             st)
            IN [inner EXCEPT !.buffer = RotateLeft(Swap(inner.buffer, 1, i + 1), 2, i + 2, 1)]
        first == ForRange(1, length - 3, Right, [buffer |-> customers, results |-> <<>>])
    IN ForRange(2, length - 2, Left, first).results

\* Route::intra_route, Neighborhood::Move22
IntraMove22(r) ==
    LET customers == r.customers
        length == Len(customers)
        Outer(i, st) ==
            LET head == Push1(st, r.cls, Swap(Swap(st.buffer, i, i + 2), i + 1, i + 3),
                              <<At(customers, i), At(customers, i + 1),
                                At(customers, i + 2), At(customers, i + 3)>>)
                inner == ForRange(i + 3, length - 2,
                             LAMBDA j, s :
                                 Push1(s, r.cls,
                                       Swap(Swap(Swap(Swap(s.buffer, i, i + 1), i + 1, j + 1),
                                                 j, j + 1), j - 1, j),
                                       <<At(customers, i), At(customers, i + 1),
                                         At(customers, j), At(customers, j + 1)>>),
                             head)
            IN [inner EXCEPT !.buffer = Swap(Swap(inner.buffer, i, length - 3), i + 1, length - 2)]
    \* length.saturating_sub(4)
    IN ForRange(1, Max(length - 4, 0), Outer, [buffer |-> customers, results |-> <<>>]).results

\* Route::intra_route, Neighborhood::TwoOpt
IntraTwoOpt(r) ==
    LET customers == r.customers
        length == Len(customers)
        Outer(i, st) ==
            LET head == Push1(st, r.cls, Swap(st.buffer, i, i + 1),
                              <<At(customers, i), At(customers, i + 1)>>)
                inner == ForRange(i + 2, length - 1,
                             LAMBDA j, s :
                                 Push1(s, r.cls, RotateRight(s.buffer, i, j + 1, 1),
                                       <<At(customers, i), At(customers, j)>>),
                             head)
            IN [inner EXCEPT !.buffer = ReverseRange(inner.buffer, i, length - 1)]
    IN ForRange(1, length - 2, Outer, [buffer |-> customers, results |-> <<>>]).results

\* Route::intra_route: the operator's candidates, each tabu sorted at the end
IntraRoute(r, neighborhood) ==
    LET raw == CASE neighborhood = "Move10" -> IntraMove10(r)
                 [] neighborhood = "Move11" -> IntraMove11(r)
                 [] neighborhood = "Move20" -> IntraMove20(r)
                 [] neighborhood = "Move21" -> IntraMove21(r)
                 [] neighborhood = "Move22" -> IntraMove22(r)
                 [] neighborhood = "TwoOpt" -> IntraTwoOpt(r)
                 [] OTHER -> <<[route |-> PANIC, tabu |-> <<>>]>>
    IN ForRange(0, Len(raw),
                LAMBDA n, acc : Append(acc, [route |-> At(raw, n).route,
                                             tabu |-> SortVec(At(raw, n).tabu)]),
                <<>>)

-----------------------------------------------------------------------------
(* Numbers.  The f64 quantities of the program are modelled exactly on      *)
(* instances whose quantities are whole: customers lie on the x axis at     *)
(* integer coordinates (so the Manhattan and the Euclidean matrix of        *)
(* cli.rs agree), times are counted in ticks of 1/1024 s, and speeds are    *)
(* distance units per tick that divide every distance.  A violation total   *)
(* is a quotient by a configured capacity or limit; it is kept as its       *)
(* numerator over the common denominator ViolationDen.  A penalty           *)
(* coefficient is kept in units of 1/ONE, so a cost is kept in units of     *)
(* 1/CostDen ticks.  The instances have penalty_exponent 1 or 0.            *)

Abs(a) == IF a < 0 THEN -a ELSE a

Min(a, b) == IF a < b THEN a ELSE b

RECURSIVE Gcd(_, _)
Gcd(a, b) == IF b = 0 THEN a ELSE Gcd(b, a % b)

Lcm(a, b) == (a * b) \div Gcd(a, b)

\* CONFIG.truck_distances[i][j]
TruckDistance(i, j) == Abs(CONFIG.x[i] - CONFIG.x[j])

\* CONFIG.drone_distances[i][j]
DroneDistance(i, j) == Abs(CONFIG.x[i] - CONFIG.x[j])

\* DroneConfig::capacity
DroneCapacity(drone) == drone.capacity

\* DroneConfig::battery
DroneBattery(drone) == IF drone.config = "Endurance" THEN 1 ELSE drone.battery

\* DroneConfig::fixed_time is finite for Endurance only
FixedTimeFinite(drone) == drone.config = "Endurance"

\* DroneConfig::takeoff_power
TakeoffPower(drone, weight) ==
    IF drone.config = "Linear" THEN drone.beta * weight + drone.gamma ELSE 0

\* DroneConfig::landing_power
LandingPower(drone, weight) ==
    IF drone.config = "Linear" THEN drone.beta * weight + drone.gamma ELSE 0

\* DroneConfig::cruise_power
CruisePower(drone, weight) ==
    IF drone.config = "Linear" THEN drone.beta * weight + drone.gamma ELSE 0

\* DroneConfig::takeoff_time
TakeoffTime(drone) == IF drone.config = "Linear" THEN drone.takeoff_time ELSE 0

\* DroneConfig::landing_time
LandingTime(drone) == IF drone.config = "Linear" THEN drone.landing_time ELSE 0

\* DroneConfig::cruise_time
CruiseTime(drone, distance) == distance \div drone.speed

\* _RouteData::_construct: value.distance
RouteDistance(customers, Dist(_, _)) ==
    ForRange(0, Len(customers) - 1,
             LAMBDA i, distance : distance + Dist(At(customers, i), At(customers, i + 1)), 0)

\* _RouteData::_construct: value.weight
RouteWeight(customers) ==
    ForRange(0, Len(customers) - 1,
             LAMBDA i, weight : weight + CONFIG.demands[At(customers, i)], 0)

\* TruckRoute::_calculate_waiting_time_violation
TruckWaitingTimeViolation(customers, working_time) ==
    ForRange(1, Len(customers) - 1,
             LAMBDA i, st :
                 LET accumulate_time == st.accumulate_time
                         + TruckDistance(At(customers, i - 1), At(customers, i)) \div CONFIG.truck.speed
                 IN [accumulate_time |-> accumulate_time,
                     waiting_time_violation |-> st.waiting_time_violation
                         + Max(working_time - accumulate_time - CONFIG.waiting_time_limit, 0)],
             [accumulate_time |-> 0, waiting_time_violation |-> 0]).waiting_time_violation

\* TruckRoute::_construct: the cached metrics of a truck route
TruckMetrics(customers) ==
    LET working_time == RouteDistance(customers, TruckDistance) \div CONFIG.truck.speed
    IN [working_time |-> working_time,
        capacity_violation |-> Max(RouteWeight(customers) - CONFIG.truck.capacity, 0),
        waiting_time_violation |-> TruckWaitingTimeViolation(customers, working_time),
        energy_violation |-> 0,
        fixed_time_violation |-> 0]

\* DroneRoute::_construct: the cached metrics of a drone route
DroneMetrics(customers) ==
    LET drone == CONFIG.drone
        working_time == (TakeoffTime(drone) + LandingTime(drone)) * (Len(customers) - 1)
                            + CruiseTime(drone, RouteDistance(customers, DroneDistance))
        loop == ForRange(0, Len(customers) - 1,
                    LAMBDA i, st :
                        LET cruise == CruiseTime(drone, DroneDistance(At(customers, i), At(customers, i + 1)))
                            time == st.time + TakeoffTime(drone) + cruise + LandingTime(drone)
                        IN [time |-> time,
                            energy |-> st.energy + LandingPower(drone, st.weight) * LandingTime(drone)
                                          + TakeoffPower(drone, st.weight) * TakeoffTime(drone)
                                          + CruisePower(drone, st.weight) * cruise,
                            weight |-> st.weight + CONFIG.demands[At(customers, i)],
                            waiting |-> st.waiting
                                + Max(working_time - time - CONFIG.waiting_time_limit, 0)],
                    [time |-> 0, energy |-> 0, weight |-> 0, waiting |-> 0])
    IN [working_time |-> working_time,
        capacity_violation |-> Max(RouteWeight(customers) - DroneCapacity(CONFIG.drone), 0),
        waiting_time_violation |-> loop.waiting,
        energy_violation |-> Max(loop.energy - DroneBattery(CONFIG.drone), 0),
        \* working_time - INFINITY is negative
        fixed_time_violation |-> IF FixedTimeFinite(CONFIG.drone)
                                 THEN Max(working_time - CONFIG.drone.fixed_time, 0) ELSE 0]

\* The cached metrics of a route of either class
Metrics(r) == IF r.cls = "Truck" THEN TruckMetrics(r.customers) ELSE DroneMetrics(r.customers)

-----------------------------------------------------------------------------
(* Solutions (solutions.rs). *)

\* The common denominator of the four violation totals of Solution::new
ViolationDen ==
    Lcm(Lcm(Lcm(CONFIG.truck.capacity, DroneCapacity(CONFIG.drone)),
            Lcm(DroneBattery(CONFIG.drone), CONFIG.waiting_time_limit)),
        IF FixedTimeFinite(CONFIG.drone) THEN CONFIG.drone.fixed_time ELSE 1)

\* routes.iter().map(|r| F(r)).sum()
SumRoutes(routes, F(_)) ==
    ForRange(0, Len(routes), LAMBDA n, acc : acc + F(At(routes, n)), 0)

\* Feasible that does not look at the fixed-time total
FeasibleIgnoringFixedTime(energy_violation, capacity_violation, waiting_time_violation, fixed_time_violation) ==
    energy_violation = 0 /\ capacity_violation = 0 /\ waiting_time_violation = 0

\* Solution::new: the `feasible` field
Feasible(energy_violation, capacity_violation, waiting_time_violation, fixed_time_violation) ==
    /\ energy_violation = 0
    /\ capacity_violation = 0
    /\ waiting_time_violation = 0
    /\ fixed_time_violation = 0

\* The totals of the cached metrics over the routes of one vehicle
VehicleTotals(routes) ==
    [working_time |-> SumRoutes(routes, LAMBDA r : r.working_time),
     capacity_violation |-> SumRoutes(routes, LAMBDA r : r.capacity_violation),
     waiting_time_violation |-> SumRoutes(routes, LAMBDA r : r.waiting_time_violation),
     energy_violation |-> SumRoutes(routes, LAMBDA r : r.energy_violation),
     fixed_time_violation |-> SumRoutes(routes, LAMBDA r : r.fixed_time_violation)]

\* The totals of every vehicle of one class, from the metrics each route caches
FleetTotals(vehicle_routes) ==
    ForRange(0, Len(vehicle_routes),
             LAMBDA n, acc :
                 Append(acc,
                        VehicleTotals(ForRange(0, Len(At(vehicle_routes, n)),
                                               LAMBDA k, routes :
                                                   Append(routes, Metrics(At(At(vehicle_routes, n), k))),
                                               <<>>))),
             <<>>)

\* Solution::new: the fields, from the totals over all vehicles
SolutionFields(truck_routes, drone_routes, truck_working_time, drone_working_time, working_time, energy_violation, capacity_violation, waiting_time_violation, fixed_time_violation) ==
    [truck_routes |-> truck_routes,
     drone_routes |-> drone_routes,
     working_time |-> working_time,
     energy_violation |-> energy_violation,
     capacity_violation |-> capacity_violation,
     waiting_time_violation |-> waiting_time_violation,
     fixed_time_violation |-> fixed_time_violation,
     feasible |-> Feasible(energy_violation, capacity_violation,
                           waiting_time_violation, fixed_time_violation),
     truck_working_time |-> truck_working_time,
     drone_working_time |-> drone_working_time]

\* Solution::new: the totals over all vehicles, each divided by its limit
SolutionScaled(truck_routes, drone_routes, truck_working_time, drone_working_time, all) ==
    SolutionFields(truck_routes, drone_routes, truck_working_time, drone_working_time,
                   all.working_time,
                   all.energy_violation * (ViolationDen \div DroneBattery(CONFIG.drone)),
                   all.capacity_violation,
                   all.waiting_time_violation * (ViolationDen \div CONFIG.waiting_time_limit),
                   \* a finite total divided by INFINITY is 0
                   IF FixedTimeFinite(CONFIG.drone)
                   THEN all.fixed_time_violation * (ViolationDen \div CONFIG.drone.fixed_time)
                   ELSE 0)

\* Solution::new: the loop over the trucks
TruckTotals(truck_totals) ==
    ForRange(0, Len(truck_totals),
             LAMBDA n, st :
                 [working_time |-> Max(st.working_time, At(truck_totals, n).working_time),
                  capacity_violation |-> st.capacity_violation
                      + At(truck_totals, n).capacity_violation
                            * (ViolationDen \div CONFIG.truck.capacity),
                  waiting_time_violation |-> st.waiting_time_violation
                      + At(truck_totals, n).waiting_time_violation,
                  energy_violation |-> 0,
                  fixed_time_violation |-> 0],
             [working_time |-> 0, capacity_violation |-> 0, waiting_time_violation |-> 0,
              energy_violation |-> 0, fixed_time_violation |-> 0])

\* Solution::new: the loop over the drones, after the one over the trucks
AllTotals(trucks, drone_totals) ==
    ForRange(0, Len(drone_totals),
             LAMBDA n, st :
                 [working_time |-> Max(st.working_time, At(drone_totals, n).working_time),
                  energy_violation |-> st.energy_violation + At(drone_totals, n).energy_violation,
                  capacity_violation |-> st.capacity_violation
                      + At(drone_totals, n).capacity_violation
                            * (ViolationDen \div DroneCapacity(CONFIG.drone)),
                  waiting_time_violation |-> st.waiting_time_violation
                      + At(drone_totals, n).waiting_time_violation,
                  fixed_time_violation |-> st.fixed_time_violation
                      + At(drone_totals, n).fixed_time_violation],
             trucks)

\* truck_working_time / drone_working_time of Solution::new
WorkingTimes(totals) ==
    ForRange(0, Len(totals), LAMBDA n, acc : Append(acc, At(totals, n).working_time), <<>>)

\* Solution::new, given the totals of each truck and of each drone
SolutionFrom(truck_routes, drone_routes, truck_totals, drone_totals) ==
    SolutionScaled(truck_routes, drone_routes, WorkingTimes(truck_totals), WorkingTimes(drone_totals),
                   AllTotals(TruckTotals(truck_totals), drone_totals))

\* Solution::new
SolutionNew(truck_routes, drone_routes) ==
    SolutionFrom(truck_routes, drone_routes, FleetTotals(truck_routes), FleetTotals(drone_routes))

\* The value 1.0 of a penalty coefficient
ONE == 64

\* The denominator of costs: Cost(s) / CostDen is the cost in ticks
CostDen == ONE * ViolationDen

\* TOLERANCE = 0.001 s, in thousandths of a tick
TOLERANCE == 1024

\* c + TOLERANCE for a cost c: whole costs differ by more than the tolerance
\* exactly when they differ by more than the tolerance rounded down
PlusTolerance(cost) == cost + (TOLERANCE * CostDen) \div 1000

\* penalty_coeff::<N>()
penalty_coeff(N) == At(PENALTY_COEFF, N)

\* Solution::cost
Cost(s) ==
    LET base == penalty_coeff(3) * s.fixed_time_violation
                    + (penalty_coeff(2) * s.waiting_time_violation
                    + (penalty_coeff(1) * s.capacity_violation
                    + (penalty_coeff(0) * s.energy_violation + CostDen)))
    \* powf(CONFIG.penalty_exponent) for the exponents 1 and 0
    IN s.working_time * (IF CONFIG.penalty_exponent = 1 THEN base ELSE CostDen)

\* Solution::hamming_distance
HammingDistance(self, other) ==
    LET FillRoutes(vehicle_routes, repr0) ==
            ForRange(0, Len(vehicle_routes),
                LAMBDA v, rv :
                    ForRange(0, Len(At(vehicle_routes, v)),
                        LAMBDA n, rr :
                            LET customers == At(At(vehicle_routes, v), n).customers
                            IN ForRange(1, Len(customers) - 1,
                                   LAMBDA i, rp : [rp EXCEPT ![At(customers, i) + 1] = At(customers, i + 1)],
                                   rr),
                        rv),
                repr0)
        \* vec![0; CONFIG.customers_count + 1]
        zero == ForRange(0, CONFIG.customers_count + 1, LAMBDA c, acc : Append(acc, 0), <<>>)
        self_repr == FillRoutes(self.drone_routes, FillRoutes(self.truck_routes, zero))
        other_repr == FillRoutes(other.drone_routes, FillRoutes(other.truck_routes, zero))
    IN Cardinality({c \in 0..CONFIG.customers_count : At(self_repr, c) # At(other_repr, c)})

\* f64::MAX, above every cost
F64_MAX == 2147483646

\* _update_violation::<N>: the new value of a coefficient.  value * 1.5 and
\* value / 1.5 are whole in units of 1/ONE while the coefficient is below the
\* clamp (it is ONE times a power of 1.5 no higher than the number of updates
\* the runs allow).
UpdateViolationNoClamp(value, violation) ==
    IF violation > 0 THEN (value * 3) \div 2 ELSE (value * 2) \div 3

\* _update_violation::<N>
UpdateViolation(value, violation) ==
    LET updated == IF violation > 0 THEN (value * 3) \div 2 ELSE (value * 2) \div 3
    IN Max(ONE, Min(updated, 1000 * ONE))

\* _update_violation_solution: the new PENALTY_COEFF
UpdateViolationSolution(coeff, s) ==
    <<UpdateViolation(At(coeff, 0), s.energy_violation),
      UpdateViolation(At(coeff, 1), s.capacity_violation),
      UpdateViolation(At(coeff, 2), s.waiting_time_violation),
      UpdateViolation(At(coeff, 3), s.fixed_time_violation)>>

-----------------------------------------------------------------------------
(* Neighborhood search (neighborhoods.rs). *)

\* Vec::contains
Contains(list, x) == \E n \in 1..Len(list) : list[n] = x

\* Vec::swap_remove(index)
SwapRemove(vec, index) ==
    IF index = Len(vec) - 1 THEN Pop(vec) ELSE Pop([vec EXCEPT ![index + 1] = vec[Len(vec)]])

\* R::get_correct_route: the routes of one class
Routes(solution, cls) == IF cls = "Truck" THEN solution.truck_routes ELSE solution.drone_routes

\* truck_cloned and drone_cloned, indexed by the class
Cloned(solution) == [Truck |-> solution.truck_routes, Drone |-> solution.drone_routes]

\* cloned_routes[vehicle][route_idx] = route
SetRoute(cloned, cls, vehicle, route_idx, route) ==
    [cloned EXCEPT ![cls][vehicle + 1][route_idx + 1] = route]

\* cloned_routes[vehicle].swap_remove(route_idx)
SwapRemoveRoute(cloned, cls, vehicle, route_idx) ==
    [cloned EXCEPT ![cls][vehicle + 1] = SwapRemove(@, route_idx)]

\* cloned_routes[vehicle].push(route)
PushRoute(cloned, cls, vehicle, route) ==
    [cloned EXCEPT ![cls][vehicle + 1] = Append(@, route)]

\* Neighborhood::_find_decisive_vehicle
FindDecisiveVehicle(solution) ==
    LET trucks == ForRange(0, Len(solution.truck_working_time),
                      LAMBDA truck, st :
                          IF st.first \/ At(solution.truck_working_time, truck) > st.max_time
                          THEN [first |-> FALSE, max_time |-> At(solution.truck_working_time, truck),
                                vehicle |-> truck, is_truck |-> TRUE]
                          ELSE st,
                      \* max_time = f64::MIN: below every time
                      [first |-> TRUE, max_time |-> 0, vehicle |-> 0, is_truck |-> TRUE])
    IN ForRange(0, Len(solution.drone_working_time),
           LAMBDA drone, st :
               IF st.first \/ At(solution.drone_working_time, drone) > st.max_time
               THEN [first |-> FALSE, max_time |-> At(solution.drone_working_time, drone),
                     vehicle |-> drone, is_truck |-> FALSE]
               ELSE st,
           trucks)

\* The _IterationState a search starts with (original and tabu_list are passed along)
IterationState(solution, aspiration_cost) ==
    [aspiration_cost |-> aspiration_cost,
     min_cost |-> F64_MAX,
     require_feasible |-> FALSE,
     result |-> solution,
     tabu |-> <<>>,
     updated |-> FALSE]

\* _internal_update once cost and new_best_global_solution are known
InternalUpdateWith(state, tabu_list, solution, tabu, cost, new_best_global_solution) ==
    IF new_best_global_solution \/ (~Contains(tabu_list, tabu) /\ cost < state.min_cost)
    THEN [aspiration_cost |-> IF new_best_global_solution THEN cost ELSE state.aspiration_cost,
          min_cost |-> cost,
          require_feasible |-> new_best_global_solution \/ state.require_feasible,
          result |-> solution,
          tabu |-> tabu,
          updated |-> TRUE]
    ELSE [state EXCEPT !.updated = FALSE]

\* _internal_update once `let cost = solution.cost()` is known
InternalUpdateCost(state, tabu_list, solution, tabu, cost) ==
    InternalUpdateWith(state, tabu_list, solution, tabu, cost,
                       cost < state.aspiration_cost /\ solution.feasible)

\* _internal_update of a solution that is already built
InternalUpdateOf(state, tabu_list, solution, tabu) ==
    IF state.require_feasible /\ ~solution.feasible
    THEN [state EXCEPT !.updated = FALSE]
    ELSE InternalUpdateCost(state, tabu_list, solution, tabu, Cost(solution))

\* Neighborhood::_internal_update; `updated` is the value it returns
InternalUpdate(state, tabu_list, solution, tabu) ==
    InternalUpdateOf(state, tabu_list, solution, tabu)

\* Solution::new(truck_cloned, drone_cloned)
SolutionOf(cloned) == SolutionNew(cloned.Truck, cloned.Drone)

\* intra_route: `for (new_route, tabu) in route.intra_route(self)`
IntraRouteUpdate(cloned, cls, vehicle, i, tabu_list, neighbors, st0) ==
    ForRange(0, Len(neighbors),
        LAMBDA n, st :
            InternalUpdate(st, tabu_list,
                SolutionOf(SetRoute(cloned, cls, vehicle, i, At(neighbors, n).route)),
                At(neighbors, n).tabu),
        st0)

\* Neighborhood::intra_route
IntraRouteSearch(neighborhood, solution, tabu_list, aspiration_cost) ==
    LET decisive == FindDecisiveVehicle(solution)
        vehicle == decisive.vehicle
        cls == IF decisive.is_truck THEN "Truck" ELSE "Drone"
        original_routes == Routes(solution, cls)
        cloned == Cloned(solution)
    IN IF neighborhood = "EjectionChain"
       THEN IterationState(solution, aspiration_cost)
       ELSE ForRange(0, Len(At(original_routes, vehicle)),
                LAMBDA i, st0 :
                    IntraRouteUpdate(cloned, cls, vehicle, i, tabu_list,
                                     IntraRoute(At(At(original_routes, vehicle), i), neighborhood), st0),
                IterationState(solution, aspiration_cost))

\* t.1, t.0, t.2 of every candidate
Swapped(neighbors) ==
    ForRange(0, Len(neighbors),
        LAMBDA n, acc : Append(acc, Cand2(At(neighbors, n).j, At(neighbors, n).i, At(neighbors, n).tabu)),
        <<>>)

\* iterate_route_j: one candidate (route_i, route_j, tabu).  The routes assigned
\* temporarily are restored after every candidate, so every candidate is
\* assembled from the routes of the original solution.
IterateCandidate(original, tabu_list, RI, RJ, vehicle_i, route_idx_i, vehicle_j, route_idx_j, c, st) ==
    IF \/ (IsRoute(c.i) /\ SingleCustomer(RI) /\ Len(c.i.customers) # 3)
       \/ (IsRoute(c.j) /\ SingleCustomer(RJ) /\ Len(c.j.customers) # 3)
    THEN st
    ELSE LET cloned == Cloned(original)
             same_vehicle == RI = RJ /\ vehicle_i = vehicle_j
             route_idx_j_after_swap_remove ==
                 IF /\ ~IsRoute(c.i)
                    /\ same_vehicle
                    /\ route_idx_j = Len(At(Routes(original, RJ), vehicle_j)) - 1
                 THEN route_idx_i ELSE route_idx_j
             cloned_i == IF IsRoute(c.i)
                         THEN SetRoute(cloned, RI, vehicle_i, route_idx_i, c.i)
                         ELSE SwapRemoveRoute(cloned, RI, vehicle_i, route_idx_i)
             cloned_j == IF IsRoute(c.j)
                         THEN SetRoute(cloned_i, RJ, vehicle_j, route_idx_j_after_swap_remove, c.j)
                         ELSE SwapRemoveRoute(cloned_i, RJ, vehicle_j, route_idx_j_after_swap_remove)
         IN InternalUpdate(st, tabu_list, SolutionOf(cloned_j), c.tabu)

\* iterate_route_j: the candidates of one pair of routes, in the order the code chains them
IterateCandidates(original, tabu_list, RI, RJ, vehicle_i, route_idx_i, vehicle_j, route_idx_j, neighbors, st0) ==
    ForRange(0, Len(neighbors),
        LAMBDA n, st :
            IterateCandidate(original, tabu_list, RI, RJ, vehicle_i, route_idx_i,
                             vehicle_j, route_idx_j, At(neighbors, n), st),
        st0)

\* iterate_route_j: one route_j; a route is not paired with itself
IterateRoutePair(neighborhood, original, tabu_list, RI, RJ, vehicle_i, route_idx_i, vehicle_j, route_idx_j, this_route_i, this_route_j, st0) ==
    IF At(this_route_i.customers, 1) = At(this_route_j.customers, 1)
    THEN st0
    ELSE IterateCandidates(original, tabu_list, RI, RJ, vehicle_i, route_idx_i, vehicle_j, route_idx_j,
             InterRoute(this_route_i, this_route_j, neighborhood)
                 \o (IF neighborhood \in {"Move10", "Move20", "Move21"}
                     THEN Swapped(InterRoute(this_route_j, this_route_i, neighborhood))
                     ELSE <<>>),
             st0)

\* iterate_route_j::<RI, RJ> of _inter_route_internal
IterateRouteJ(neighborhood, original, tabu_list, RI, RJ, vehicle_i, route_idx_i, state) ==
    ForRange(0, Len(Routes(original, RJ)),
        LAMBDA vehicle_j, st1 :
            ForRange(0, Len(At(Routes(original, RJ), vehicle_j)),
                LAMBDA route_idx_j, st0 :
                    IterateRoutePair(neighborhood, original, tabu_list, RI, RJ, vehicle_i, route_idx_i,
                                     vehicle_j, route_idx_j,
                                     At(At(Routes(original, RI), vehicle_i), route_idx_i),
                                     At(At(Routes(original, RJ), vehicle_j), route_idx_j),
                                     st0),
                st1),
        state)

\* Neighborhood::_inter_route_internal::<RI>
InterRouteInternal(neighborhood, original, tabu_list, RI, vehicle_i, state) ==
    ForRange(0, Len(At(Routes(original, RI), vehicle_i)),
        LAMBDA route_idx_i, st :
            IterateRouteJ(neighborhood, original, tabu_list, RI, "Drone", vehicle_i, route_idx_i,
                IterateRouteJ(neighborhood, original, tabu_list, RI, "Truck", vehicle_i, route_idx_i, st)),
        state)

\* iterate_route_j_append: one candidate, pushed to every vehicle of RJ in turn
IterateAppend(original, tabu_list, RI, RJ, vehicle_i, route_idx_i, c, st1) ==
    IF SingleCustomer(RJ) /\ Len(c.j.customers) # 3
    THEN st1
    ELSE ForRange(0, Len(Routes(original, RJ)),
             LAMBDA vehicle_j, st :
                 IF SingleRoute(RJ) /\ Len(At(Routes(original, RJ), vehicle_j)) # 0
                 THEN st
                 ELSE InternalUpdate(st, tabu_list,
                          SolutionOf(PushRoute(SetRoute(Cloned(original), RI, vehicle_i, route_idx_i, c.i),
                                               RJ, vehicle_j, c.j)),
                          c.tabu),
             st1)

\* iterate_route_j_append: the candidates of route_i
IterateAppends(original, tabu_list, RI, RJ, vehicle_i, route_idx_i, neighbors, state) ==
    ForRange(0, Len(neighbors),
        LAMBDA n, st1 :
            IterateAppend(original, tabu_list, RI, RJ, vehicle_i, route_idx_i, At(neighbors, n), st1),
        state)

\* iterate_route_j_append::<RI, RJ> of _inter_route_extract_internal
IterateRouteJAppend(neighborhood, original, tabu_list, RI, RJ, vehicle_i, route_idx_i, state) ==
    IterateAppends(original, tabu_list, RI, RJ, vehicle_i, route_idx_i,
                   InterRouteExtract(At(At(Routes(original, RI), vehicle_i), route_idx_i), RJ, neighborhood),
                   state)

\* Neighborhood::_inter_route_extract_internal::<RI>
InterRouteExtractInternal(neighborhood, original, tabu_list, RI, vehicle_i, state) ==
    ForRange(0, Len(At(Routes(original, RI), vehicle_i)),
        LAMBDA route_idx_i, st :
            IterateRouteJAppend(neighborhood, original, tabu_list, RI, "Drone", vehicle_i, route_idx_i,
                IterateRouteJAppend(neighborhood, original, tabu_list, RI, "Truck", vehicle_i, route_idx_i, st)),
        state)

\* _IndexingHelper::vehicle_index
VehicleIndex(indexer, vehicle) ==
    IF vehicle < Len(indexer.Truck)
    THEN At(indexer.Truck, vehicle)
    ELSE At(indexer.Drone, vehicle - Len(indexer.Truck))

\* _IndexingHelper::route_index
RouteIndex(indexer, vehicle, route_idx) == At(VehicleIndex(indexer, vehicle), route_idx)

\* _IndexingHelper::same_route
SameRoute(indexer, first_vehicle, first_route, second_vehicle, second_route) ==
    At(RouteIndex(indexer, first_vehicle, first_route).customers, 1)
        = At(RouteIndex(indexer, second_vehicle, second_route).customers, 1)

\* _IndexingHelper::update
IndexerUpdate(indexer, vehicle, route_idx, new_route) ==
    IF vehicle < Len(indexer.Truck)
    THEN SetRoute(indexer, "Truck", vehicle, route_idx, new_route)
    ELSE SetRoute(indexer, "Drone", vehicle - Len(indexer.Truck), route_idx, new_route)

\* AnyRoute::to_solution: a route in the list of the other class panics
ToSolution(indexer) ==
    IF /\ \A v \in 1..Len(indexer.Truck) : \A n \in 1..Len(indexer.Truck[v]) :
              indexer.Truck[v][n].cls = "Truck"
       /\ \A v \in 1..Len(indexer.Drone) : \A n \in 1..Len(indexer.Drone[v]) :
              indexer.Drone[v][n].cls = "Drone"
    THEN SolutionOf(indexer)
    ELSE PANIC

\* _ejection_chain_internal: `if self._internal_update(...) { indexer.update x 3 }`
\* keeps the routes of the candidate in the indexer
EjectionKeep(st, s, updated) ==
    [indexer |-> IF updated.updated THEN Cloned(s) ELSE st.indexer, state |-> updated]

\* _ejection_chain_internal: the candidate solution s is offered to _internal_update
EjectionOffer(tabu_list, tabu, s, st) == EjectionKeep(st, s, InternalUpdate(st.state, tabu_list, s, tabu))

\* _ejection_chain_internal: one candidate (route_i, route_j, route_k, tabu)
EjectionNeighbor(tabu_list, vi, ri, vj, rj, vk, rk, c, st) ==
    IF ~IsRoute(c.i)
    THEN st
    ELSE EjectionOffer(tabu_list, c.tabu,
             ToSolution(IndexerUpdate(
                            IndexerUpdate(IndexerUpdate(st.indexer, vk, rk, c.k), vj, rj, c.j),
                            vi, ri, c.i)),
             st)

\* _ejection_chain_internal: the candidates of one triple of routes
EjectionNeighbors(tabu_list, vi, ri, vj, rj, vk, rk, neighbors, st0) ==
    ForRange(0, Len(neighbors),
        LAMBDA n, st : EjectionNeighbor(tabu_list, vi, ri, vj, rj, vk, rk, At(neighbors, n), st),
        st0)

\* _ejection_chain_internal: the body of the loop over route k
EjectionRouteK(tabu_list, vi, ri, vj, rj, vk, rk, st0) ==
    IF \/ SameRoute(st0.indexer, vj, rj, vk, rk)
       \/ SameRoute(st0.indexer, vk, rk, vi, ri)
    THEN st0
    ELSE EjectionNeighbors(tabu_list, vi, ri, vj, rj, vk, rk,
             InterRoute3(RouteIndex(st0.indexer, vi, ri),
                         RouteIndex(st0.indexer, vj, rj),
                         RouteIndex(st0.indexer, vk, rk)),
             st0)

\* _ejection_chain_internal: the body of the loop over route j
EjectionRouteJ(tabu_list, total_vehicles, vi, ri, vj, rj, st0) ==
    IF SameRoute(st0.indexer, vi, ri, vj, rj)
    THEN st0
    ELSE ForRange(0, total_vehicles,
             LAMBDA vk, st2 :
                 ForRange(0, Len(VehicleIndex(st2.indexer, vk)),
                     LAMBDA rk, st : EjectionRouteK(tabu_list, vi, ri, vj, rj, vk, rk, st),
                     st2),
             st0)

\* _ejection_chain_internal: the body of the loop over route i
EjectionRouteI(tabu_list, total_vehicles, vi, ri, st0) ==
    ForRange(0, total_vehicles,
        LAMBDA vj, st2 :
            ForRange(0, Len(VehicleIndex(st2.indexer, vj)),
                LAMBDA rj, st : EjectionRouteJ(tabu_list, total_vehicles, vi, ri, vj, rj, st),
                st2),
        st0)

\* _ejection_chain_internal: the loops, for total_vehicles = trucks_count + drones_count
EjectionChainLoop(tabu_list, total_vehicles, st0) ==
    ForRange(0, total_vehicles,
        LAMBDA vi, st2 :
            ForRange(0, Len(VehicleIndex(st2.indexer, vi)),
                LAMBDA ri, st : EjectionRouteI(tabu_list, total_vehicles, vi, ri, st),
                st2),
        st0)

\* Neighborhood::_ejection_chain_internal; the loop state is the indexer and
\* the _IterationState
EjectionChainInternal(original, tabu_list, state) ==
    EjectionChainLoop(tabu_list, Len(original.truck_routes) + Len(original.drone_routes),
                      [indexer |-> Cloned(original), state |-> state]).state

\* Neighborhood::inter_route
InterRouteSearch(neighborhood, solution, tabu_list, aspiration_cost) ==
    LET decisive == FindDecisiveVehicle(solution)
        RI == IF decisive.is_truck THEN "Truck" ELSE "Drone"
        state == IterationState(solution, aspiration_cost)
    IN IF neighborhood = "EjectionChain"
       THEN EjectionChainInternal(solution, tabu_list, state)
       ELSE InterRouteExtractInternal(neighborhood, solution, tabu_list, RI, decisive.vehicle,
                InterRouteInternal(neighborhood, solution, tabu_list, RI, decisive.vehicle, state))

\* Vec::iter().position(|x| x == &tabu): the first index, or the length when there is none
Position(list, x) ==
    IF Contains(list, x)
    THEN (CHOOSE n \in 1..Len(list) : list[n] = x /\ \A k \in 1..(n - 1) : list[k] # x) - 1
    ELSE Len(list)

\* TabuListUpdate without `if tabu_list.len() > tabu_size { remove(0) }`
TabuListUpdateNoEviction(tabu_list, tabu, tabu_size) ==
    IF Contains(tabu_list, tabu)
    THEN RotateLeft(tabu_list, Position(tabu_list, tabu), Len(tabu_list), 1)
    ELSE Append(tabu_list, tabu)

\* TabuListUpdate with `tabu_list.rotate_left(1)` in place of
\* `tabu_list[index..].rotate_left(1)`
TabuListUpdateWholeRotation(tabu_list, tabu, tabu_size) ==
    IF Contains(tabu_list, tabu)
    THEN RotateLeft(tabu_list, 0, Len(tabu_list), 1)
    ELSE LET pushed == Append(tabu_list, tabu)
         IN IF Len(pushed) > tabu_size THEN Remove(pushed, 0) ELSE pushed

\* Neighborhood::search: how the tabu list takes the (sorted) attribute of the move
TabuListUpdate(tabu_list, tabu, tabu_size) ==
    IF Contains(tabu_list, tabu)
    THEN RotateLeft(tabu_list, Position(tabu_list, tabu), Len(tabu_list), 1)
    ELSE LET pushed == Append(tabu_list, tabu)
         IN IF Len(pushed) > tabu_size THEN Remove(pushed, 0) ELSE pushed

\* Neighborhood::search: [some, solution, tabu_list] for Option<Solution> and
\* the caller's list, the local tabu after tabu.sort(), and whether either
\* candidate set met a feasible candidate below aspiration_cost (the set's
\* require_feasible is set exactly then)
Search(neighborhood, solution, tabu_list, tabu_size, aspiration_cost) ==
    LET Chosen(intra, inter) ==
            IF Len(intra.tabu) = 0 THEN inter
            ELSE IF Len(inter.tabu) = 0 THEN intra
            ELSE IF Cost(intra.result) < Cost(inter.result) THEN intra
            ELSE inter
        Update(chosen, aspired) ==
            IF Len(chosen.tabu) = 0
            THEN [some |-> FALSE, solution |-> solution, tabu |-> <<>>, tabu_list |-> tabu_list,
                  aspired |-> aspired]
            ELSE [some |-> TRUE,
                  solution |-> chosen.result,
                  tabu |-> SortVec(chosen.tabu),
                  tabu_list |-> TabuListUpdate(tabu_list, SortVec(chosen.tabu), tabu_size),
                  aspired |-> aspired]
        Both(intra, inter) ==
            Update(Chosen(intra, inter), intra.require_feasible \/ inter.require_feasible)
    IN Both(IntraRouteSearch(neighborhood, solution, tabu_list, aspiration_cost),
            InterRouteSearch(neighborhood, solution, tabu_list, aspiration_cost))

-----------------------------------------------------------------------------
(* Route-level runs: the Route operations applied to routes drawn from a    *)
(* bounded family of instances.                                             *)

\* solutions.rs NEIGHBORHOODS: the operators the driver cycles through
NEIGHBORHOODS == <<"Move10", "Move11", "Move20", "Move21", "Move22", "TwoOpt">>

Classes == {"Truck", "Drone"}

\* The route 0, lo, lo + 1, ..., hi, 0 (None when it would serve nobody)
Block(cls, lo, hi) ==
    IF lo > hi THEN NONE
    ELSE [cls |-> cls,
          customers |-> ForRange(lo, hi + 1, LAMBDA c, acc : Append(acc, c), <<0>>) \o <<0>>]

\* Instances of route-level runs: any dronable flags, any route-per-class flags
RouteConfigs ==
    {[customers_count |-> MaxCustomers,
      dronable |-> [c \in 0..MaxCustomers |-> c = 0 \/ c \in d],
      single_truck_route |-> FALSE, single_drone_route |-> FALSE] :
        d \in SUBSET (1..MaxCustomers)}

\* The variables of a run of main, in a specification that runs none
NoRun ==
    /\ pc = "none"
    /\ failure = NONE
    /\ init = NONE
    /\ root = NONE
    /\ current = NONE
    /\ result = NONE
    /\ elite_set = <<>>
    /\ tabu_lists = <<>>
    /\ neighborhood_idx = 0
    /\ iteration = 0
    /\ last_improved_iteration = 0
    /\ adaptive = NONE
    /\ edge_records = <<>>
    /\ hyper = NONE
    /\ old_current = NONE
    /\ flags = NONE
    /\ repair = NONE

InitRoute ==
    /\ CONFIG \in RouteConfigs
    /\ \E a \in 1..CONFIG.customers_count, b \in 0..CONFIG.customers_count :
         /\ a + b <= CONFIG.customers_count
         /\ \E ci \in Classes, cj \in Classes, ck \in Classes :
              /\ route_i = Block(ci, 1, a)
              /\ route_j = Block(cj, a + 1, a + b)
              /\ route_k = Block(ck, a + b + 1, CONFIG.customers_count)
    /\ op = [name |-> "init"]
    /\ results = <<>>
    /\ PENALTY_COEFF = <<ONE, ONE, ONE, ONE>>
    /\ NoRun

\* Largest length of the sequences tried on new
MaxNewLen == 4

\* A route-level run applies one operation to the routes drawn by InitRoute
Fresh == op.name = "init"

RECURSIVE SeqsUpTo(_, _)
SeqsUpTo(S, n) ==
    IF n = 0 THEN {<<>>}
    ELSE LET shorter == SeqsUpTo(S, n - 1)
         IN shorter \cup {Append(q, x) : q \in {t \in shorter : Len(t) = n - 1}, x \in S}

\* R::new(customers)
DoNew ==
    /\ Fresh
    /\ \E cls \in Classes, customers \in SeqsUpTo(0..1, MaxNewLen) :
         /\ op' = [name |-> "new", cls |-> cls, customers |-> customers]
         /\ results' = <<[route |-> RouteNew(cls, customers)]>>
    /\ UNCHANGED <<CONFIG, PENALTY_COEFF, route_i, route_j, route_k, runVars>>

\* R::single(customer)
DoSingle ==
    /\ Fresh
    /\ \E cls \in Classes, customer \in 0..CONFIG.customers_count :
         /\ op' = [name |-> "single", cls |-> cls, customer |-> customer]
         /\ results' = <<[route |-> RouteSingle(cls, customer)]>>
    /\ UNCHANGED <<CONFIG, PENALTY_COEFF, route_i, route_j, route_k, runVars>>

\* route_i.push(customer)
DoPush ==
    /\ Fresh
    /\ \E customer \in 0..CONFIG.customers_count :
         /\ op' = [name |-> "push", customer |-> customer]
         /\ results' = <<[route |-> RoutePush(route_i, customer)]>>
    /\ UNCHANGED <<CONFIG, PENALTY_COEFF, route_i, route_j, route_k, runVars>>

\* route_i.pop()
DoPop ==
    /\ Fresh
    /\ op' = [name |-> "pop"]
    /\ results' = <<[route |-> RoutePop(route_i)]>>
    /\ UNCHANGED <<CONFIG, PENALTY_COEFF, route_i, route_j, route_k, runVars>>

\* route_i.intra_route(neighborhood)
DoIntraRoute ==
    /\ Fresh
    /\ \E n \in 1..Len(NEIGHBORHOODS) :
         /\ op' = [name |-> "intra_route", neighborhood |-> NEIGHBORHOODS[n]]
         /\ results' = IntraRoute(route_i, NEIGHBORHOODS[n])
    /\ UNCHANGED <<CONFIG, PENALTY_COEFF, route_i, route_j, route_k, runVars>>

\* route_i.inter_route(route_j, neighborhood)
DoInterRoute ==
    /\ Fresh
    /\ IsRoute(route_j)
    /\ \E n \in 1..Len(NEIGHBORHOODS) :
         /\ op' = [name |-> "inter_route", neighborhood |-> NEIGHBORHOODS[n]]
         /\ results' = InterRoute(route_i, route_j, NEIGHBORHOODS[n])
    /\ UNCHANGED <<CONFIG, PENALTY_COEFF, route_i, route_j, route_k, runVars>>

\* route_i.inter_route_extract::<T>(neighborhood)
DoInterRouteExtract ==
    /\ Fresh
    /\ \E n \in 1..Len(NEIGHBORHOODS), T \in Classes :
         /\ op' = [name |-> "inter_route_extract", neighborhood |-> NEIGHBORHOODS[n], T |-> T]
         /\ results' = InterRouteExtract(route_i, T, NEIGHBORHOODS[n])
    /\ UNCHANGED <<CONFIG, PENALTY_COEFF, route_i, route_j, route_k, runVars>>

\* route_i.inter_route_3(route_j, route_k, EjectionChain)
DoInterRoute3 ==
    /\ Fresh
    /\ IsRoute(route_j)
    /\ IsRoute(route_k)
    /\ op' = [name |-> "inter_route_3", neighborhood |-> "EjectionChain"]
    /\ results' = InterRoute3(route_i, route_j, route_k)
    /\ UNCHANGED <<CONFIG, PENALTY_COEFF, route_i, route_j, route_k, runVars>>

NextRoute ==
    \/ DoNew
    \/ DoSingle
    \/ DoPush
    \/ DoPop
    \/ DoIntraRoute
    \/ DoInterRoute
    \/ DoInterRouteExtract
    \/ DoInterRoute3

SpecRoute == InitRoute /\ [][NextRoute]_vars

-----------------------------------------------------------------------------
(* Instances.  A configuration is a record with the fields of config.rs     *)
(* Config that the model reads.  Vectors indexed by customer are functions  *)
(* on 0..customers_count; a real-valued factor is the pair of a numerator   *)
(* and a denominator.                                                       *)

\* vec indexed by customer id, from its tuple of values
ByCustomer(values) == [c \in 0..Len(values) - 1 |-> values[c + 1]]

\* Option<usize>
Some(value) == [some |-> TRUE, value |-> value]

None == [some |-> FALSE, value |-> 0]

Ratio(num, den) == [num |-> num, den |-> den]

\* (factor * base) as usize, for base = numerator / denominator
FloorMul(factor, numerator, denominator) ==
    (factor.num * numerator) \div (factor.den * denominator)

\* The drone_endurance_config of the instances: no takeoff or landing time, no energy use
EnduranceDrone ==
    [config |-> "Endurance", capacity |-> 1, speed |-> 1, fixed_time |-> 4, battery |-> 1,
     takeoff_time |-> 0, landing_time |-> 0, beta |-> 0, gamma |-> 0]

\* The linear energy model of the instances: power = beta * weight + gamma
LinearDrone ==
    [config |-> "Linear", capacity |-> 1, speed |-> 1, fixed_time |-> 0, battery |-> 12,
     takeoff_time |-> 1, landing_time |-> 1, beta |-> 1, gamma |-> 1]

\* A problem file and command line, before config.rs narrows the dronable
\* flags: three customers on a ray from the depot, one truck and one drone,
\* and the options of a short run
BaseInstance ==
    [customers_count |-> 3, trucks_count |-> 1, drones_count |-> 1,
     x |-> ByCustomer(<<0, 1, 3, 4>>),
     demands |-> ByCustomer(<<0, 1, 1, 1>>),
     dronable |-> ByCustomer(<<TRUE, TRUE, TRUE, TRUE>>),
     truck |-> [speed |-> 1, capacity |-> 2],
     drone |-> EnduranceDrone,
     waiting_time_limit |-> 4,
     penalty_exponent |-> 1,
     tabu_size_factor |-> Ratio(3, 4),
     adaptive_iterations |-> 1,
     adaptive_fixed_iterations |-> FALSE,
     adaptive_segments |-> 1,
     adaptive_fixed_segments |-> FALSE,
     ejection_chain_iterations |-> 0,
     destroy_rate |-> Ratio(1, 10),
     strategy |-> "Adaptive",
     fix_iteration |-> None,
     reset_after_factor |-> Ratio(1, 1),
     max_elite_size |-> 0,
     single_truck_route |-> FALSE,
     single_drone_route |-> FALSE,
     dry_run |-> FALSE]

-----------------------------------------------------------------------------
(* The configuration (config.rs) and the initial solution                   *)
(* (clusterize.rs, Solution::initialize).                                   *)

\* CONFIG of the Run command: the dronable flags of the problem file are
\* narrowed to the customers a drone can serve on a route of their own
ConfigOf(instance) ==
    LET drone == instance.drone
        Distance(i, j) == Abs(instance.x[i] - instance.x[j])
        takeoff == TakeoffTime(drone)
        takeoff_from_depot == TakeoffPower(drone, 0)
        landing == LandingTime(drone)
        landing_from_depot == LandingPower(drone, 0)
        cruise_from_depot == CruisePower(drone, 0)
        Narrowed(i) ==
            /\ instance.dronable[i]
            /\ instance.demands[i] <= DroneCapacity(drone)
            /\ FixedTimeFinite(drone) =>
                   takeoff + CruiseTime(drone, Distance(0, i) + Distance(i, 0)) + landing
                       <= drone.fixed_time
            /\ (landing_from_depot + LandingPower(drone, instance.demands[i])) * landing
                   + (CruisePower(drone, instance.demands[i]) * CruiseTime(drone, Distance(i, 0))
                   + ((takeoff_from_depot + TakeoffPower(drone, instance.demands[i])) * takeoff
                   + cruise_from_depot * CruiseTime(drone, Distance(0, i))))
                   <= DroneBattery(drone)
    IN [instance EXCEPT !.dronable = [i \in 0..instance.customers_count |-> i = 0 \/ Narrowed(i)]]

\* slice::sort_by: the stable sort; Before(a, b) is the comparator saying Less
StableSort(s, Before(_, _)) ==
    ForRange(0, Len(s),
        LAMBDA n, sorted :
            \* the next element goes behind every element that is not after it
            Insert(sorted,
                   Cardinality({k \in 1..Len(sorted) : ~Before(At(s, n), sorted[k])}),
                   At(s, n)),
        <<>>)

\* The angle of a customer seen from the depot, in half turns: the customers
\* of the instances are on the x axis, so atan2 is 0 or pi
Angle(customer) == IF CONFIG.x[customer] - CONFIG.x[0] < 0 THEN 1 ELSE 0

\* clusterize::clusterize
Clusterize(index, k) ==
    LET customers == StableSort(index, LAMBDA i, j : Angle(i) < Angle(j))
        len == Len(customers)
        widest == ForRange(0, len,
                      LAMBDA i, st :
                          LET angle == Angle(At(customers, i)) - Angle(At(customers, (i + 1) % len))
                          IN IF angle > st.max_angle
                             THEN [max_angle |-> angle, max_angle_idx |-> i]
                             ELSE st,
                      [max_angle |-> 0, max_angle_idx |-> 0])
        rotate_first == (widest.max_angle_idx + 1) % len
        rotated == RotateLeft(customers, 0, len, rotate_first)
        first == Angle(At(rotated, 0))
        last == Angle(At(rotated, len - 1))
        \* (angle - first) / gap for gap = (last - first) / k; 0.0 / 0.0 casts to 0
        Cluster(customer) ==
            IF last - first = 0 THEN 0
            ELSE Min(((Angle(customer) - first) * k) \div (last - first), k - 1)
        empty == ForRange(0, k, LAMBDA n, acc : Append(acc, <<>>), <<>>)
    IN IF len = 0 THEN empty
       \* k - 1 overflows, or clusters[0] is out of bounds
       ELSE IF k = 0 THEN PANIC
       ELSE ForRange(0, len,
                LAMBDA n, clusters :
                    [clusters EXCEPT ![Cluster(At(rotated, n)) + 1] = Append(@, At(rotated, n))],
                empty)

\* vec![vec![]; n]
EmptyRoutes(n) == ForRange(0, n, LAMBDA v, acc : Append(acc, <<>>), <<>>)

\* initialize: truck_routes and drone_routes before any route is built
NoRoutes == [Truck |-> EmptyRoutes(CONFIG.trucks_count), Drone |-> EmptyRoutes(CONFIG.trucks_count)]

\* initialize: truckable[customer] / dronable[customer], a single route of the
\* customer on vehicle 0 being feasible
ServableAlone(cls, customer) ==
    IF cls = "Truck"
    THEN CONFIG.trucks_count > 0
         /\ SolutionOf(PushRoute(NoRoutes, "Truck", 0, RouteSingle("Truck", customer))).feasible
    ELSE CONFIG.drones_count > 0
         /\ CONFIG.dronable[customer]
         /\ SolutionOf(PushRoute(NoRoutes, "Drone", 0, RouteSingle("Drone", customer))).feasible

\* initialize: the vector truckable (cls = "Truck") or dronable (cls = "Drone")
ServableVec(cls) ==
    ForRange(0, CONFIG.customers_count + 1,
        LAMBDA customer, acc :
            Append(acc, IF customer = 0
                        THEN (IF cls = "Truck" THEN CONFIG.trucks_count > 0 ELSE CONFIG.drones_count > 0)
                        ELSE ServableAlone(cls, customer)),
        <<>>)

\* initialize: truckable and dronable
ServableVecs == [Truck |-> ServableVec("Truck"), Drone |-> ServableVec("Drone")]

\* initialize: the customers named by the panic of the servability check
Unservable(servable) ==
    {customer \in 1..CONFIG.customers_count :
        ~At(servable.Truck, customer) /\ ~At(servable.Drone, customer)}

\* A _State of the queue
QueueState(working_time, vehicle, parent, index, is_truck) ==
    [working_time |-> working_time, vehicle |-> vehicle, parent |-> parent,
     index |-> index, is_truck |-> is_truck]

\* The permutations of a Vec
RECURSIVE Orders(_)
Orders(s) ==
    IF Len(s) = 0 THEN {<<>>}
    ELSE UNION {{<<s[n]>> \o p : p \in Orders(Remove(s, n - 1))} : n \in 1..Len(s)}

\* initialize: a _State of the cluster is pushed when the loop over the cluster
\* meets a customer the vehicle class can serve; its index is the first of the cluster
SeedQueue(queue, i, cluster, servable, is_truck) ==
    IF \E n \in 1..Len(cluster) : At(servable, cluster[n])
    THEN Append(queue, QueueState(0, i, 0, At(cluster, 0), is_truck))
    ELSE queue

\* initialize: the queue seeding of one cluster, as shuffled and then as sorted
SeedSorted(st, i, shuffled, sorted, servable) ==
    [queue |-> SeedQueue(SeedQueue(st.queue, i, shuffled, servable.Truck, TRUE),
                         i, sorted, servable.Drone, FALSE),
     clusters |-> [st.clusters EXCEPT ![i + 1] = sorted]]

\* initialize: the queue seeding of one cluster, for one outcome of the shuffle
SeedCluster(st, i, shuffled, servable) ==
    SeedSorted(st, i, shuffled,
               StableSort(shuffled, LAMBDA a, b : DroneDistance(0, a) < DroneDistance(0, b)),
               servable)

\* The ways of shuffling every cluster: tuples of one permutation per cluster
RECURSIVE Shuffles(_)
Shuffles(clusters) ==
    IF Len(clusters) = 0 THEN {<<>>}
    ELSE {Append(rest, p) : rest \in Shuffles(Pop(clusters)),
                            p \in Orders(At(clusters, Len(clusters) - 1))}

\* initialize: clusters_mapping[customer] is the cluster of the customer
ClustersMapping(clusters) ==
    ForRange(0, Len(clusters),
        LAMBDA i, mapping :
            ForRange(0, Len(At(clusters, i)),
                LAMBDA n, m : [m EXCEPT ![At(At(clusters, i), n) + 1] = i],
                mapping),
        ForRange(0, CONFIG.customers_count + 1, LAMBDA c, acc : Append(acc, 0), <<>>))

\* initialize: the queue and the clusters after the seeding loop
Seeded(clusters, shuffles, servable) ==
    ForRange(0, Len(clusters),
        LAMBDA i, st :
            IF Len(At(clusters, i)) = 0 THEN st
            ELSE SeedCluster(st, i, At(shuffles, i), servable),
        [queue |-> <<>>, clusters |-> clusters])

\* initialize: the locals the loop starts with
LocalsOf(clusters_mapping, seeded, servable) ==
    [clusters |-> seeded.clusters,
     clusters_mapping |-> clusters_mapping,
     servable |-> servable,
     queue |-> seeded.queue,
     global |-> 1..CONFIG.customers_count,
     routes |-> NoRoutes]

\* initialize: lines 320 to 428 for one outcome of the shuffles, the locals
\* the loop starts with
InitializeLocals(clusters, shuffles, servable) ==
    LocalsOf(ClustersMapping(clusters), Seeded(clusters, shuffles, servable), servable)

\* Some route of the lists is the outcome of a panic
Panicked(routes) ==
    \E cls \in {"Truck", "Drone"} : \E v \in 1..Len(routes[cls]) :
        \E n \in 1..Len(routes[cls][v]) : ~IsRoute(routes[cls][v][n])

\* routes[vehicle].last_mut().unwrap()
LastRoute(routes, cls, vehicle) ==
    IF Len(At(routes[cls], vehicle)) = 0 THEN PANIC
    ELSE At(At(routes[cls], vehicle), Len(At(routes[cls], vehicle)) - 1)

\* initialize: the popped customer is put on a new route (parent 0) or
\* behind the last route of the vehicle
Attach(routes, cls, packed) ==
    IF packed.parent = 0
    THEN PushRoute(routes, cls, packed.vehicle, RouteSingle(cls, packed.index))
    ELSE LET last == LastRoute(routes, cls, packed.vehicle)
         IN IF IsRoute(last)
            THEN SetRoute(routes, cls, packed.vehicle, Len(At(routes[cls], packed.vehicle)) - 1,
                          RoutePush(last, packed.index))
            ELSE PushRoute(routes, cls, packed.vehicle, PANIC)

\* initialize: the customer is taken off again
Detach(routes, cls, packed) ==
    IF packed.parent = 0
    THEN [routes EXCEPT ![cls][packed.vehicle + 1] = Pop(@)]
    ELSE SetRoute(routes, cls, packed.vehicle, Len(At(routes[cls], packed.vehicle)) - 1,
                  RoutePop(LastRoute(routes, cls, packed.vehicle)))

\* CONFIG.truck_distances[i][j] or CONFIG.drone_distances[i][j]
VehicleDistance(cls, i, j) == IF cls = "Truck" THEN TruckDistance(i, j) ELSE DroneDistance(i, j)

\* truck_next / drone_next: `for &customer in customers` over min_distance and
\* min_idx; min_distance is INFINITY exactly while min_idx is 0
Nearest(servable, cls, parent, customers, st0) ==
    ForRange(0, Len(customers),
        LAMBDA n, m :
            IF /\ At(servable, At(customers, n))
               /\ (m.min_idx = 0 \/ VehicleDistance(cls, parent, At(customers, n)) < m.min_distance)
            THEN [min_distance |-> VehicleDistance(cls, parent, At(customers, n)),
                  min_idx |-> At(customers, n)]
            ELSE m,
        st0)

\* global.iter(): in ascending order
GlobalVec(global) ==
    SortVec(ForRange(1, CONFIG.customers_count + 1,
                LAMBDA c, acc : IF c \in global THEN Append(acc, c) ELSE acc,
                <<>>))

\* truck_next / drone_next: `if min_idx == 0`, the loop over global
NextFound(st, cls, parent, in_cluster) ==
    IF in_cluster.min_idx = 0
    THEN Nearest(st.servable[cls], cls, parent, GlobalVec(st.global), in_cluster)
    ELSE in_cluster

\* truck_next / drone_next: `if min_idx != 0`, the push with the working time
\* of the vehicle in temp
NextPush(queue, cls, parent, vehicle, found, temp) ==
    IF found.min_idx # 0
    THEN Append(queue,
                QueueState(IF cls = "Truck"
                           THEN At(temp.truck_working_time, vehicle)
                           ELSE At(temp.drone_working_time, vehicle),
                           vehicle, parent, found.min_idx, cls = "Truck"))
    ELSE queue

\* truck_next / drone_next: the queue after the call
NextState(st, cls, parent, vehicle) ==
    NextPush(st.queue, cls, parent, vehicle,
             NextFound(st, cls, parent,
                       Nearest(st.servable[cls], cls, parent,
                               At(st.clusters, At(st.clusters_mapping, parent)),
                               [min_distance |-> 0, min_idx |-> 0])),
             SolutionOf(st.routes))

\* initialize: the parent handed to truck_next / drone_next
NextParent(cls, parent) == IF cls = "Drone" /\ CONFIG.single_drone_route THEN 0 ELSE parent

\* initialize: what one iteration does before it calls truck_next / drone_next:
\* the locals, whether the call is made, and the parent it is made with
StepOutcome(st, packed, cls, cluster, attached) ==
    IF ~Contains(At(st.clusters, cluster), packed.index)
    THEN [st |-> st, next |-> TRUE, parent |-> NextParent(cls, packed.parent)]
    ELSE IF Panicked(attached)
    THEN [st |-> [st EXCEPT !.routes = attached], next |-> FALSE, parent |-> 0]
    ELSE IF SolutionOf(attached).feasible
    THEN [st |-> [st EXCEPT !.routes = attached,
                            !.clusters[cluster + 1] = Remove(@, Position(@, packed.index)),
                            !.global = @ \ {packed.index}],
          next |-> TRUE,
          parent |-> NextParent(cls, packed.index)]
    ELSE [st |-> [st EXCEPT !.routes = Detach(attached, cls, packed)],
          next |-> ~(cls = "Truck" /\ CONFIG.single_truck_route),
          parent |-> 0]

\* initialize: the call of truck_next / drone_next that ends the iteration
StepNext(outcome, cls, vehicle) ==
    IF outcome.next
    THEN [outcome.st EXCEPT !.queue = NextState(outcome.st, cls, outcome.parent, vehicle)]
    ELSE outcome.st

\* initialize: one iteration, for the state `packed` popped from the queue
StepPacked(st, packed, cls) ==
    StepNext(StepOutcome(st, packed, cls, At(st.clusters_mapping, packed.index),
                         Attach(st.routes, cls, packed)),
             cls, packed.vehicle)

\* initialize: one iteration of `while !global.is_empty()` that pops the
\* n-th state of the queue
InitializeStep(st0, n) ==
    StepPacked([st0 EXCEPT !.queue = Remove(@, n)], At(st0.queue, n),
               IF At(st0.queue, n).is_truck THEN "Truck" ELSE "Drone")

\* initialize: the drone with the least work so far, the first of them
LeastLoaded(working_time) ==
    ForRange(0, Len(working_time),
        LAMBDA i, m :
            IF m.first \/ At(working_time, i) < m.min_time
            THEN [first |-> FALSE, min_time |-> At(working_time, i), min_idx |-> i]
            ELSE m,
        [first |-> TRUE, min_time |-> 0, min_idx |-> 0]).min_idx

\* initialize: a route is given to the drone `least`
DealRoute(st, route, least) ==
    [drone_routes |-> [st.drone_routes EXCEPT ![least + 1] = Append(@, route)],
     working_time |-> [st.working_time EXCEPT ![least + 1] = @ + Metrics(route).working_time]]

\* initialize: the routes, longest first, each to the drone with the least work so far
DealRoutes(all_routes) ==
    ForRange(0, Len(all_routes),
        LAMBDA n, st : DealRoute(st, At(all_routes, n), LeastLoaded(st.working_time)),
        [drone_routes |-> EmptyRoutes(CONFIG.drones_count),
         working_time |-> ForRange(0, CONFIG.drones_count, LAMBDA i, acc : Append(acc, 0), <<>>)]
    ).drone_routes

\* initialize without the resize: the drone routes stay with the clusters
ResizeDroneRoutesKeep(drone_routes) == drone_routes

\* initialize: the drone routes are dealt to CONFIG.drones_count drones, the
\* longest first, each to the drone with the least work so far
ResizeDroneRoutes(drone_routes) ==
    DealRoutes(StableSort(ForRange(0, Len(drone_routes),
                              LAMBDA v, acc : acc \o At(drone_routes, v), <<>>),
                          LAMBDA f, s : Metrics(f).working_time > Metrics(s).working_time))

\* initialize: the Solution returned once every customer is served
InitializeResult(st) ==
    SolutionNew(st.routes.Truck,
                IF CONFIG.drones_count > 0 THEN ResizeDroneRoutes(st.routes.Drone) ELSE <<>>)

\* A verify that looks at the limits on routes and never at who is served
VerifyLimitsOnly(solution) ==
    /\ \A v \in 1..Len(solution.truck_routes) :
           ~(CONFIG.single_truck_route /\ Len(solution.truck_routes[v]) > 1)
    /\ \A v \in 1..Len(solution.drone_routes) : \A n \in 1..Len(solution.drone_routes[v]) :
           ~(CONFIG.single_drone_route /\ Len(solution.drone_routes[v][n].customers) # 3)

\* Solution::verify: it returns rather than panics
Verify(solution) ==
    LET Customers(vehicle_routes) ==
            ForRange(0, Len(vehicle_routes),
                LAMBDA v, acc1 :
                    ForRange(0, Len(At(vehicle_routes, v)),
                        LAMBDA n, acc :
                            acc \o Slice(At(At(vehicle_routes, v), n).customers, 1,
                                         Len(At(At(vehicle_routes, v), n).customers) - 1),
                        acc1),
                <<>>)
        served == Customers(solution.truck_routes) \o Customers(solution.drone_routes)
        Shaped(vehicle_routes, cls) ==
            \A v \in 1..Len(vehicle_routes) :
                /\ ~(SingleRoute(cls) /\ Len(vehicle_routes[v]) > 1)
                /\ \A n \in 1..Len(vehicle_routes[v]) :
                       LET customers == vehicle_routes[v][n].customers
                       IN /\ ~(SingleCustomer(cls) /\ Len(customers) # 3)
                          /\ Len(customers) >= 1
                          /\ customers[1] = 0
                          /\ customers[Len(customers)] = 0
    IN /\ Shaped(solution.truck_routes, "Truck")
       /\ Shaped(solution.drone_routes, "Drone")
       /\ \A c \in 1..CONFIG.customers_count :
              Cardinality({n \in 1..Len(served) : served[n] = c}) = 1
       /\ \A n \in 1..Len(served) : served[n] # 0

-----------------------------------------------------------------------------
(* Destroy and repair (Solution::destroy_and_repair). *)

\* f64::INFINITY, the sum of two f64::MAX
INFINITY == 2147483647

\* a + b of two edge records, each a time or f64::MAX (which absorbs a time)
AddF64(a, b) ==
    IF a = F64_MAX /\ b = F64_MAX THEN INFINITY
    ELSE IF a = F64_MAX \/ b = F64_MAX THEN F64_MAX
    ELSE a + b

\* vec![vec![f64::MAX; customers_count + 1]; customers_count + 1]
NoEdgeRecords ==
    LET row == ForRange(0, CONFIG.customers_count + 1, LAMBDA c, acc : Append(acc, F64_MAX), <<>>)
    IN ForRange(0, CONFIG.customers_count + 1, LAMBDA c, acc : Append(acc, row), <<>>)

\* destroy_and_repair: scores[c] of every customer, 0.0 for those on no route
Scores(solution, records) ==
    LET Fill(vehicle_routes, scores0) ==
            ForRange(0, Len(vehicle_routes),
                LAMBDA v, sv :
                    ForRange(0, Len(At(vehicle_routes, v)),
                        LAMBDA n, sr :
                            LET customers == At(At(vehicle_routes, v), n).customers
                            IN ForRange(1, Len(customers) - 1,
                                   LAMBDA i, sc :
                                       [sc EXCEPT ![At(customers, i) + 1] =
                                           AddF64(At(At(records, At(customers, i - 1)), At(customers, i)),
                                                  At(At(records, At(customers, i)), At(customers, i + 1)))],
                                   sr),
                        sv),
                scores0)
        zero == ForRange(0, CONFIG.customers_count + 1, LAMBDA c, acc : Append(acc, 0), <<>>)
    IN Fill(solution.drone_routes, Fill(solution.truck_routes, zero))

\* The outcomes of ordered.sort_unstable_by: the customers by ascending
\* score, equal scores in any order
Ordered(scores) ==
    {ordered \in Orders(ForRange(1, CONFIG.customers_count + 1, LAMBDA c, acc : Append(acc, c), <<>>)) :
        \A a \in 1..Len(ordered) : \A b \in a..Len(ordered) :
            At(scores, ordered[a]) <= At(scores, ordered[b])}

\* The customers of a set, in ascending order
Ascending(customers) ==
    ForRange(1, CONFIG.customers_count + 1,
        LAMBDA c, acc : IF c \in customers THEN Append(acc, c) ELSE acc, <<>>)

\* (customers_count as f64 * destroy_rate) as usize
DestroyCount == FloorMul(CONFIG.destroy_rate, CONFIG.customers_count, 1)

\* The values of random_range(0..len).pow(2) / len
DestroyIndices(len) == {(r * r) \div len : r \in 0..len - 1}

\* The sets the selection loop can end with: destroy_count distinct customers
\* of the reachable ranks (none when the loop cannot end)
ToDestroy(ordered) ==
    {chosen \in SUBSET {At(ordered, index) : index \in DestroyIndices(Len(ordered))} :
        Cardinality(chosen) = DestroyCount}

\* The destroy phase on the routes of one vehicle, from route i on
RECURSIVE DestroyVehicle(_, _, _, _)
DestroyVehicle(routes, cls, i, to_destroy) ==
    IF i >= Len(routes) THEN routes
    ELSE LET customers == At(routes, i).customers
             buffer == ForRange(0, Len(customers),
                           LAMBDA n, acc : IF At(customers, n) \in to_destroy THEN acc
                                           ELSE Append(acc, At(customers, n)),
                           <<>>)
         IN IF Len(buffer) > 2
            THEN DestroyVehicle([routes EXCEPT ![i + 1] = RouteNew(cls, buffer)], cls, i + 1, to_destroy)
            ELSE DestroyVehicle(SwapRemove(routes, i), cls, i, to_destroy)

\* The destroy phase
Destroy(solution, to_destroy) ==
    [Truck |-> ForRange(0, Len(solution.truck_routes),
                   LAMBDA v, acc : Append(acc, DestroyVehicle(At(solution.truck_routes, v), "Truck", 0, to_destroy)),
                   <<>>),
     Drone |-> ForRange(0, Len(solution.drone_routes),
                   LAMBDA v, acc : Append(acc, DestroyVehicle(At(solution.drone_routes, v), "Drone", 0, to_destroy)),
                   <<>>)]

\* `insert` of the repair phase
InsertAt(is_truck, append, vehicle, route, index) ==
    [is_truck |-> is_truck, append |-> append, vehicle |-> vehicle, route |-> route, index |-> index]

\* if temp.cost() < min_cost { min_cost = temp.cost(); insert = ... }
Try(best, routes, insert) ==
    LET Cheaper(cost) == IF cost < best.min_cost THEN [min_cost |-> cost, insert |-> insert] ELSE best
    IN Cheaper(Cost(SolutionOf(routes)))

\* The repair phase: the new route of the vehicle with the customer alone
RepairAppend(routes, customer, cls, vehicle, best) ==
    Try(best, PushRoute(routes, cls, vehicle, RouteSingle(cls, customer)),
        InsertAt(cls = "Truck", TRUE, vehicle, 0, 0))

\* The repair phase: every position of every route of the vehicle
RepairInside(routes, customer, cls, vehicle, best0) ==
    ForRange(0, Len(At(routes[cls], vehicle)),
        LAMBDA route, best1 :
            ForRange(1, Len(At(At(routes[cls], vehicle), route).customers) - 1,
                LAMBDA i, best :
                    Try(best,
                        SetRoute(routes, cls, vehicle, route,
                                 RouteNew(cls, Insert(At(At(routes[cls], vehicle), route).customers,
                                                      i, customer))),
                        InsertAt(cls = "Truck", FALSE, vehicle, route, i)),
                best1),
        best0)

\* RepairAppends without `!CONFIG.single_truck_route || truck_routes[truck].is_empty()`
RepairAppendsAlways(routes, cls, vehicle) == TRUE

\* The repair phase: a truck gets a new route unless it is held to one route
\* and has it; a drone always does
RepairAppends(routes, cls, vehicle) ==
    IF cls = "Truck"
    THEN ~CONFIG.single_truck_route \/ Len(At(routes.Truck, vehicle)) = 0
    ELSE TRUE

\* The repair phase: the routes of a drone held to single routes take no
\* second customer
RepairInserts(cls) == IF cls = "Truck" THEN TRUE ELSE ~CONFIG.single_drone_route

\* The repair phase: the places of one vehicle, the new route first
RepairVehicle(routes, customer, cls, vehicle, best) ==
    IF RepairInserts(cls)
    THEN RepairInside(routes, customer, cls, vehicle,
                      IF RepairAppends(routes, cls, vehicle)
                      THEN RepairAppend(routes, customer, cls, vehicle, best)
                      ELSE best)
    ELSE RepairAppend(routes, customer, cls, vehicle, best)

\* The repair phase: the trucks, then the drones when the customer is dronable
RepairBest(routes, customer, classes) ==
    ForRange(0, Len(classes),
        LAMBDA n, best0 :
            ForRange(0, Len(routes[At(classes, n)]),
                LAMBDA vehicle, best : RepairVehicle(routes, customer, At(classes, n), vehicle, best),
                best0),
        [min_cost |-> F64_MAX, insert |-> InsertAt(TRUE, TRUE, 0, 0, 0)])

\* _insert: the customer is put at the place found
InsertInto(routes, customer, insert, cls) ==
    \* routes[vehicle] of _insert is out of bounds
    IF insert.vehicle >= Len(routes[cls]) THEN PushRoute(NoRoutes, "Truck", 0, PANIC)
    ELSE IF insert.append
    THEN PushRoute(routes, cls, insert.vehicle, RouteSingle(cls, customer))
    ELSE SetRoute(routes, cls, insert.vehicle, insert.route,
                  RouteNew(cls, Insert(At(At(routes[cls], insert.vehicle), insert.route).customers,
                                       insert.index, customer)))

\* _insert for the vehicle class of the place found
Inserted(routes, customer, insert) ==
    InsertInto(routes, customer, insert, IF insert.is_truck THEN "Truck" ELSE "Drone")

\* The repair phase for one customer: the cheapest place among the ones tried,
\* the first of them when several cost the same
RepairInsert(routes, customer) ==
    Inserted(routes, customer,
             RepairBest(routes, customer,
                        IF CONFIG.dronable[customer] THEN <<"Truck", "Drone">> ELSE <<"Truck">>).insert)

-----------------------------------------------------------------------------
(* The tabu-search driver (Solution::tabu_search). *)

\* The number of vehicles of the root that have a route
TotalVehicle(solution) ==
    LET Count(vehicle_routes) ==
            Cardinality({v \in 1..Len(vehicle_routes) : Len(vehicle_routes[v]) > 0})
    IN Count(solution.truck_routes) + Count(solution.drone_routes)

\* i64::MAX as usize, the reset_after of a run of fixed length
I64_MAX == 2147483647

\* tabu_size, adaptive_iterations and reset_after: (factor * base_hyperparameter)
\* as usize for base_hyperparameter = customers_count / total_vehicle
Hyperparameters(solution) ==
    LET total_vehicle == TotalVehicle(solution)
        \* 0.0 / 0.0 casts to 0
        Scaled(factor) == IF total_vehicle = 0 THEN 0
                          ELSE FloorMul(factor, CONFIG.customers_count, total_vehicle)
    IN [tabu_size |-> Scaled(CONFIG.tabu_size_factor),
        adaptive_iterations |-> Scaled(Ratio(CONFIG.adaptive_iterations, 1)),
        reset_after |-> IF CONFIG.fix_iteration.some THEN I64_MAX
                        ELSE Scaled(CONFIG.reset_after_factor)]

\* vec![value; NEIGHBORHOODS.len()]
PerNeighborhood(value) == <<value, value, value, value, value, value>>

\* _AdaptiveState at the start: scores in tenths, weights in thousandths
NewAdaptiveState ==
    [segment |-> 0, segment_reset |-> 0, last_improved_segment |-> 0,
     scores |-> PerNeighborhood(0), weights |-> PerNeighborhood(1000),
     occurences |-> PerNeighborhood(0)]

\* Improves with the comparison the wrong way round
ImprovesReversed(neighbor, best) ==
    PlusTolerance(Cost(neighbor)) > Cost(best) /\ neighbor.feasible

\* Improves without the tolerance and without `&& neighbor.feasible`
ImprovesAtAll(neighbor, best) == Cost(neighbor) < Cost(best)

\* _record_new_solution: neighbor.cost() + TOLERANCE < result.cost() && neighbor.feasible
Improves(neighbor, best) ==
    PlusTolerance(Cost(neighbor)) < Cost(best) /\ neighbor.feasible

\* _record_new_solution: the edge records of the truck routes of the new best
RecordEdges(records, neighbor) ==
    ForRange(0, Len(neighbor.truck_routes),
        LAMBDA v, rv :
            ForRange(0, Len(At(neighbor.truck_routes, v)),
                LAMBDA n, rr :
                    LET customers == At(At(neighbor.truck_routes, v), n).customers
                    IN ForRange(0, Len(customers) - 1,
                           LAMBDA i, r :
                               [r EXCEPT ![At(customers, i) + 1][At(customers, i + 1) + 1] =
                                   Min(@, neighbor.working_time)],
                           rr),
                rv),
        records)

\* EvictIndex with max_by_key for min_by_key: the last of the members at the
\* greatest hamming distance from the new best
EvictFarthest(elite, best) ==
    CHOOSE idx \in 0..Len(elite) - 1 :
        /\ \A k \in 0..Len(elite) - 1 :
               HammingDistance(At(elite, idx), best) >= HammingDistance(At(elite, k), best)
        /\ \A k \in idx + 1..Len(elite) - 1 :
               HammingDistance(At(elite, idx), best) > HammingDistance(At(elite, k), best)

\* _record_new_solution: min_by_key of the hamming distance to the new best,
\* the first of the members at that distance
EvictIndex(elite, best) ==
    CHOOSE idx \in 0..Len(elite) - 1 :
        /\ \A k \in 0..Len(elite) - 1 :
               HammingDistance(At(elite, idx), best) <= HammingDistance(At(elite, k), best)
        /\ \A k \in 0..idx - 1 :
               HammingDistance(At(elite, idx), best) < HammingDistance(At(elite, k), best)

\* _record_new_solution: the elite set after a new best
RecordElite(elite, neighbor) ==
    IF CONFIG.max_elite_size > 0
    THEN Append(IF Len(elite) = CONFIG.max_elite_size
                THEN Remove(elite, EvictIndex(elite, neighbor))
                ELSE elite,
                neighbor)
    ELSE elite

\* _record_new_solution, on the variables it is handed
RecordNewSolution(neighbor, st, this_iteration, segment) ==
    IF Improves(neighbor, st.result)
    THEN [result |-> neighbor,
          last_improved_iteration |-> this_iteration,
          last_improved_segment |-> segment,
          edge_records |-> RecordEdges(st.edge_records, neighbor),
          elite_set |-> RecordElite(st.elite_set, neighbor)]
    ELSE st

\* The variables _record_new_solution is handed
Recorded ==
    [result |-> result,
     last_improved_iteration |-> last_improved_iteration,
     last_improved_segment |-> adaptive.last_improved_segment,
     edge_records |-> edge_records,
     elite_set |-> elite_set]

\* tabu_search: the score a neighbor earns its neighborhood, in tenths
Score(neighbor) ==
    IF ~neighbor.feasible THEN 0
    ELSE IF PlusTolerance(Cost(neighbor)) < Cost(result) THEN 3
    ELSE IF Cost(neighbor) < Cost(current) THEN 2
    ELSE 1

\* tabu_search: end_of_segment of the running iteration; taking a remainder by
\* zero panics
EndOfSegment ==
    IF CONFIG.adaptive_fixed_iterations
    THEN [panic |-> iteration > 0 /\ hyper.adaptive_iterations = 0,
          value |-> iteration > 0 /\ hyper.adaptive_iterations # 0
                        /\ iteration % hyper.adaptive_iterations = 0]
    ELSE [panic |-> iteration # last_improved_iteration /\ hyper.adaptive_iterations = 0,
          value |-> iteration # last_improved_iteration /\ hyper.adaptive_iterations # 0
                        /\ (iteration - last_improved_iteration) % hyper.adaptive_iterations = 0]

\* tabu_search: reset of the running iteration, for the segment count reached
Reset(segment) ==
    IF CONFIG.strategy = "Adaptive"
    THEN [panic |-> FALSE,
          value |-> IF CONFIG.adaptive_fixed_segments
                    THEN segment >= adaptive.segment_reset + CONFIG.adaptive_segments
                    ELSE segment >= Max(adaptive.segment_reset, adaptive.last_improved_segment)
                                        + CONFIG.adaptive_segments]
    ELSE [panic |-> iteration # last_improved_iteration /\ hyper.reset_after = 0,
          value |-> iteration # last_improved_iteration /\ hyper.reset_after # 0
                        /\ (iteration - last_improved_iteration) % hyper.reset_after = 0]

\* tabu_search: the weights at the end of a segment,
\* 0.7 * weight + 0.3 * score / occurences, rounded down to a thousandth
SegmentWeights(state) ==
    [state EXCEPT
        !.weights = ForRange(0, Len(NEIGHBORHOODS),
                        LAMBDA n, acc :
                            Append(acc,
                                IF At(state.occurences, n) > 0
                                THEN (7 * At(state.weights, n)) \div 10
                                         + (30 * At(state.scores, n)) \div At(state.occurences, n)
                                ELSE At(state.weights, n)),
                        <<>>),
        !.scores = PerNeighborhood(0),
        !.occurences = PerNeighborhood(0)]

-----------------------------------------------------------------------------
(* The instances of the runs of main. *)

\* Largest number of iterations of the driver loop in a run
MaxIteration == 6

\* Scenario A: one truck, no drone, three customers on a ray that the truck
\* can serve on one route in any order
ScenarioA(x, strategy, fix_iteration) ==
    ConfigOf([BaseInstance EXCEPT !.drones_count = 0,
                                  !.x = ByCustomer(x),
                                  !.truck = [speed |-> 1, capacity |-> 4],
                                  !.waiting_time_limit = 8,
                                  !.strategy = strategy,
                                  !.fix_iteration = fix_iteration,
                                  !.destroy_rate = Ratio(1, 2)])

\* Two trucks of capacity 2 and three customers on a ray: a truck needs two
\* routes to serve them alone
TwoTrucks(strategy, fix_iteration, max_elite_size) ==
    ConfigOf([BaseInstance EXCEPT !.trucks_count = 2,
                                  !.drones_count = 0,
                                  !.x = ByCustomer(<<0, 1, 2, 3>>),
                                  !.waiting_time_limit = 8,
                                  !.strategy = strategy,
                                  !.fix_iteration = fix_iteration,
                                  !.max_elite_size = max_elite_size,
                                  !.destroy_rate = Ratio(1, 2)])

\* One truck and one drone, and a burst of two ejection chains after a reset
TruckAndDrone ==
    ConfigOf([BaseInstance EXCEPT !.x = ByCustomer(<<0, 1, 2, 3>>),
                                  !.waiting_time_limit = 8,
                                  !.strategy = "Vns",
                                  !.max_elite_size = 1,
                                  !.ejection_chain_iterations = 2,
                                  !.destroy_rate = Ratio(1, 2)])

\* Scenario B: the demands of the customers, some above the capacity 2 of the
\* trucks and the capacity 1 of the drones
ScenarioB(demands, trucks_count) ==
    ConfigOf([BaseInstance EXCEPT !.demands = ByCustomer(demands),
                                  !.trucks_count = trucks_count])

\* Two trucks of capacity 2 and four customers on a ray: a run that improves
\* its best more than once before the elite set is looked at
FourCustomers ==
    ConfigOf([BaseInstance EXCEPT !.customers_count = 4,
                                  !.trucks_count = 2,
                                  !.drones_count = 0,
                                  !.x = ByCustomer(<<0, 1, 2, 3, 4>>),
                                  !.demands = ByCustomer(<<0, 1, 1, 1, 1>>),
                                  !.dronable = ByCustomer(<<TRUE, TRUE, TRUE, TRUE, TRUE>>),
                                  !.waiting_time_limit = 12,
                                  !.strategy = "Cyclic",
                                  !.fix_iteration = Some(3),
                                  !.max_elite_size = 2,
                                  !.destroy_rate = Ratio(1, 2)])

\* One truck of capacity 2, no drone and --penalty-exponent 0: the cost of a
\* solution is its working time, whatever it violates
Unpenalized ==
    ConfigOf([BaseInstance EXCEPT !.drones_count = 0,
                                  !.x = ByCustomer(<<0, 1, 2, 3>>),
                                  !.waiting_time_limit = 8,
                                  !.penalty_exponent = 0,
                                  !.strategy = "Cyclic",
                                  !.fix_iteration = Some(2)])

\* A fleet whose numbers of trucks and drones differ, with or without the
\* limits to one route per truck and one customer per drone route; the run
\* stops after initialize
Fleet(trucks_count, drones_count, single_truck_route, single_drone_route) ==
    ConfigOf([BaseInstance EXCEPT !.trucks_count = trucks_count,
                                  !.drones_count = drones_count,
                                  !.x = ByCustomer(<<0, 1, 2, 3>>),
                                  !.waiting_time_limit = 8,
                                  !.single_truck_route = single_truck_route,
                                  !.single_drone_route = single_drone_route,
                                  !.dry_run = TRUE])

\* One truck of capacity 4 and one drone that can reach every customer: a run
\* whose best solution improves to one with a drone route
DroneBest ==
    ConfigOf([BaseInstance EXCEPT !.x = ByCustomer(<<0, 1, 2, 4>>),
                                  !.truck = [speed |-> 1, capacity |-> 4],
                                  !.drone = [EnduranceDrone EXCEPT !.fixed_time = 8],
                                  !.waiting_time_limit = 8,
                                  !.strategy = "Cyclic",
                                  !.fix_iteration = Some(3)])

\* A problem file that forbids the drone the customer nearest to the depot;
\* the run stops after initialize
NearestForbidden ==
    ConfigOf([BaseInstance EXCEPT !.x = ByCustomer(<<0, 1, 2, 3>>),
                                  !.dronable = ByCustomer(<<TRUE, FALSE, TRUE, TRUE>>),
                                  !.waiting_time_limit = 8,
                                  !.dry_run = TRUE])

RunConfigs ==
    {ScenarioA(<<0, 1, 3, 4>>, "Cyclic", None),
     ScenarioA(<<0, 1, 2, 4>>, "Random", Some(2)),
     ScenarioA(<<0, 4, 1, 2>>, "Vns", Some(1)),
     ScenarioA(<<0, 2, 2, 5>>, "Adaptive", Some(2)),
     [ScenarioA(<<0, 1, 2, 4>>, "Cyclic", None) EXCEPT !.dry_run = TRUE],
     ScenarioA(<<0, 2, 1, 4>>, "Cyclic", Some(0)),
     [ScenarioA(<<0, 1, 3, 4>>, "Cyclic", None) EXCEPT !.destroy_rate = Ratio(1, 1)],
     Fleet(2, 1, FALSE, FALSE),
     Fleet(2, 1, TRUE, FALSE),
     Fleet(1, 2, FALSE, TRUE),
     Fleet(1, 2, TRUE, TRUE),
     TwoTrucks("Vns", Some(6), 2),
     TwoTrucks("Cyclic", None, 1),
     TwoTrucks("Adaptive", Some(2), 1),
     ScenarioA(<<0, 1, 2, 4>>, "Adaptive", Some(3)),
     TruckAndDrone,
     FourCustomers,
     Unpenalized,
     DroneBest,
     NearestForbidden,
     [DroneBest EXCEPT !.single_drone_route = TRUE, !.fix_iteration = None,
                       !.destroy_rate = Ratio(1, 2)],
     [ScenarioA(<<0, 1, 2, 4>>, "Cyclic", None) EXCEPT !.single_truck_route = TRUE,
                                                      !.waiting_time_limit = 4],
     ScenarioB(<<0, 1, 3, 1>>, 1),
     ScenarioB(<<0, 3, 1, 3>>, 1),
     ScenarioB(<<0, 1, 3, 1>>, 0)}
-----------------------------------------------------------------------------
(* Runs of main: Solution::initialize, Solution::tabu_search and verify on   *)
(* the instances of RunConfigs.  The program counter pc is at "initialize", *)
(* in the loop of initialize, at "tabu_search", at one of the stages of an   *)
(* iteration of the driver loop ("iterate", "segment", "repair", "ejection", *)
(* "update", "strategy"), at "verify", or at one of the ends "done",         *)
(* "panic" and "diverge" (a loop that cannot end).                           *)

InitRun ==
    /\ CONFIG \in RunConfigs
    /\ PENALTY_COEFF = <<ONE, ONE, ONE, ONE>>
    /\ route_i = NONE
    /\ route_j = NONE
    /\ route_k = NONE
    /\ op = [name |-> "main"]
    /\ results = <<>>
    /\ pc = "initialize"
    /\ failure = NONE
    /\ init = NONE
    /\ root = NONE
    /\ current = NONE
    /\ result = NONE
    /\ elite_set = <<>>
    /\ tabu_lists = <<>>
    /\ neighborhood_idx = 0
    /\ iteration = 0
    /\ last_improved_iteration = 0
    /\ adaptive = NONE
    /\ edge_records = <<>>
    /\ hyper = NONE
    /\ old_current = NONE
    /\ flags = NONE
    /\ repair = NONE

\* A panic: what failed, and the customers its message names
Failure(kind, customers) == [kind |-> kind, customers |-> customers]

\* initialize up to the loop: clusterize, the servability check, the seeding
\* of the queue for some outcome of the shuffles
InitializeStart ==
    /\ pc = "initialize"
    /\ IF CONFIG.trucks_count = 0 /\ CONFIG.customers_count > 0
       THEN /\ pc' = "panic"
            /\ failure' = Failure("clusterize", {})
            /\ init' = init
       ELSE \E servable \in {ServableVecs} :
                IF Unservable(servable) # {}
                THEN /\ pc' = "panic"
                     \* the loop of the check stops at the first such customer
                     /\ failure' = Failure("unservable",
                                           {CHOOSE c \in Unservable(servable) :
                                                \A d \in Unservable(servable) : c <= d})
                     /\ init' = init
                ELSE /\ pc' = "initialize_loop"
                     /\ failure' = failure
                     /\ \E clusters \in {Clusterize(ForRange(1, CONFIG.customers_count + 1,
                                                       LAMBDA c, acc : Append(acc, c), <<>>),
                                                   CONFIG.trucks_count)} :
                            \E shuffles \in Shuffles(clusters) :
                                init' = InitializeLocals(clusters, shuffles, servable)
    /\ UNCHANGED <<CONFIG, PENALTY_COEFF, routeVars, root, current, result, elite_set, tabu_lists,
                   neighborhood_idx, iteration, last_improved_iteration, adaptive, edge_records,
                   hyper, old_current, flags, repair>>

\* initialize: one iteration of `while !global.is_empty()`.  The queue pops a
\* state of least working time, any of them when several have it.
InitializeLoop ==
    /\ pc = "initialize_loop"
    /\ init.global # {}
    /\ IF Len(init.queue) = 0
       THEN /\ pc' = "panic"
            /\ failure' = Failure("trivial", init.global)
            /\ init' = init
       ELSE \E n \in 0..Len(init.queue) - 1 :
                /\ \A k \in 0..Len(init.queue) - 1 :
                       At(init.queue, n).working_time <= At(init.queue, k).working_time
                /\ \E st \in {InitializeStep(init, n)} :
                      /\ init' = st
                      /\ pc' = IF Panicked(st.routes) THEN "panic" ELSE pc
                      /\ failure' = IF Panicked(st.routes) THEN Failure("route", {}) ELSE failure
    /\ UNCHANGED <<CONFIG, PENALTY_COEFF, routeVars, root, current, result, elite_set, tabu_lists,
                   neighborhood_idx, iteration, last_improved_iteration, adaptive, edge_records,
                   hyper, old_current, flags, repair>>

\* initialize: every customer is served, the Solution is returned to main
InitializeFinish ==
    /\ pc = "initialize_loop"
    /\ init.global = {}
    /\ root' = InitializeResult(init)
    /\ pc' = "tabu_search"
    /\ UNCHANGED <<CONFIG, PENALTY_COEFF, routeVars, failure, init, current, result, elite_set,
                   tabu_lists, neighborhood_idx, iteration, last_improved_iteration, adaptive,
                   edge_records, hyper, old_current, flags, repair>>

\* tabu_search up to the driver loop
TabuSearchStart ==
    /\ pc = "tabu_search"
    /\ hyper' = Hyperparameters(root)
    /\ result' = root
    /\ last_improved_iteration' = 0
    /\ adaptive' = NewAdaptiveState
    /\ IF CONFIG.dry_run
       THEN /\ pc' = "verify"
            /\ UNCHANGED <<current, edge_records, elite_set, neighborhood_idx, tabu_lists>>
       ELSE /\ pc' = "iterate"
            /\ current' = root
            /\ edge_records' = NoEdgeRecords
            /\ elite_set' = <<root>>
            /\ neighborhood_idx' = 0
            /\ tabu_lists' = PerNeighborhood(<<>>)
    /\ UNCHANGED <<CONFIG, PENALTY_COEFF, routeVars, failure, init, root, iteration, old_current,
                   flags, repair>>

\* What the last call of _record_new_solution did: whether it took a new best,
\* and whether the elite set was full when it was called
Recording(best) ==
    [name |-> "record",
     improved |-> best # result,
     full |-> CONFIG.max_elite_size > 0 /\ Len(elite_set) = CONFIG.max_elite_size]

\* iteration_range as 1..usize::MAX whatever fix_iteration is
HasNextUnbounded == iteration + 1 <= MaxIteration

\* iteration_range has a next iteration; the unbounded range is cut at MaxIteration
HasNext ==
    /\ iteration + 1 <= MaxIteration
    /\ CONFIG.fix_iteration.some => iteration + 1 <= CONFIG.fix_iteration.value

\* The driver loop, from the top of an iteration to `current = neighbor`
SearchStep ==
    /\ pc = "iterate"
    /\ HasNext
    /\ \E found \in {Search(At(NEIGHBORHOODS, neighborhood_idx), current,
                           At(tabu_lists, neighborhood_idx), hyper.tabu_size, Cost(result))} :
       \E recorded \in {IF found.some
                        THEN RecordNewSolution(found.solution, Recorded, iteration + 1, adaptive.segment)
                        ELSE Recorded} :
          /\ iteration' = iteration + 1
          /\ old_current' = current
          /\ tabu_lists' = [tabu_lists EXCEPT ![neighborhood_idx + 1] = found.tabu_list]
          /\ current' = found.solution
          /\ adaptive' = [adaptive EXCEPT
                             !.scores[neighborhood_idx + 1] =
                                 IF found.some THEN @ + Score(found.solution) ELSE @,
                             !.last_improved_segment = recorded.last_improved_segment]
          /\ result' = recorded.result
          /\ last_improved_iteration' = recorded.last_improved_iteration
          /\ edge_records' = recorded.edge_records
          /\ elite_set' = recorded.elite_set
          /\ op' = Recording(recorded.result)
    /\ pc' = "segment"
    /\ UNCHANGED <<CONFIG, PENALTY_COEFF, route_i, route_j, route_k, results, failure, init, root,
                   neighborhood_idx, hyper, flags, repair>>

\* The driver loop ends with iteration_range
Finish ==
    /\ pc = "iterate"
    /\ CONFIG.fix_iteration.some
    /\ iteration + 1 > CONFIG.fix_iteration.value
    /\ pc' = "verify"
    /\ UNCHANGED <<CONFIG, PENALTY_COEFF, routeVars, failure, init, root, current, result, elite_set,
                   tabu_lists, neighborhood_idx, iteration, last_improved_iteration, adaptive,
                   edge_records, hyper, old_current, flags, repair>>

\* The driver loop from the occurence count to the destroy phase of a reset:
\* end_of_segment, reset, and on a reset the elite member to restart from,
\* the customers to destroy and the order to repair them in
SegmentStep ==
    /\ pc = "segment"
    /\ LET end_of_segment == EndOfSegment
           segment == IF end_of_segment.value THEN adaptive.segment + 1 ELSE adaptive.segment
           reset == Reset(segment)
           counted == [adaptive EXCEPT !.occurences[neighborhood_idx + 1] = @ + 1,
                                       !.segment = segment]
       IN IF end_of_segment.panic \/ reset.panic
          THEN /\ pc' = "panic"
               /\ failure' = Failure("remainder", {})
               /\ adaptive' = counted
               /\ UNCHANGED <<PENALTY_COEFF, elite_set, flags, repair>>
          ELSE /\ failure' = failure
               /\ flags' = [end_of_segment |-> end_of_segment.value, reset |-> reset.value,
                            ejected |-> 0, ejection_chain_tabu_list |-> <<>>,
                            \* how often _update_violation_solution has run in this
                            \* iteration, and the coefficients the iteration began with
                            updates |-> 0, coeff |-> PENALTY_COEFF,
                            \* the solution the reset of this iteration restarts from
                            restart |-> NONE]
               /\ IF ~reset.value
                  THEN /\ pc' = "update"
                       /\ adaptive' = counted
                       /\ UNCHANGED <<PENALTY_COEFF, elite_set, repair>>
                  ELSE /\ adaptive' = [counted EXCEPT !.segment_reset = segment,
                                                      !.weights = PerNeighborhood(1000)]
                       /\ IF Len(elite_set) = 0
                          THEN /\ pc' = "verify"
                               /\ UNCHANGED <<PENALTY_COEFF, elite_set, repair>>
                          ELSE \E i \in 0..Len(elite_set) - 1 :
                                   LET self == At(elite_set, i)
                                   IN /\ elite_set' = SwapRemove(elite_set, i)
                                      /\ \E ordered \in Ordered(Scores(self, edge_records)) :
                                             IF ToDestroy(ordered) = {}
                                             THEN /\ pc' = "diverge"
                                                  /\ UNCHANGED <<PENALTY_COEFF, repair>>
                                             ELSE \E chosen \in ToDestroy(ordered) :
                                                      \E to_destroy \in Orders(Ascending(chosen)) :
                                                          /\ pc' = "repair"
                                                          /\ repair' = [routes |-> Destroy(self, chosen),
                                                                        to_destroy |-> to_destroy,
                                                                        old_penalty |-> PENALTY_COEFF,
                                                                        \* the routes and the customer of
                                                                        \* the last placement, none yet
                                                                        placed |-> NONE,
                                                                        \* the elite member repaired and
                                                                        \* the customers destroyed
                                                                        self |-> self,
                                                                        destroyed |-> chosen]
                                                          /\ PENALTY_COEFF' = <<1000 * ONE, 1000 * ONE,
                                                                                1000 * ONE, 1000 * ONE>>
    /\ UNCHANGED <<CONFIG, routeVars, init, root, current, result, tabu_lists, neighborhood_idx,
                   iteration, last_improved_iteration, edge_records, hyper, old_current>>

\* The restoring loop with `for i in 0..3`
RestorePenaltyShort(coeff, old_penalty) ==
    <<old_penalty[1], old_penalty[2], old_penalty[3], coeff[4]>>

\* destroy_and_repair: `for i in 0..4 { PENALTY_COEFF[i].store(old_penalty[i]) }`
RestorePenalty(coeff, old_penalty) ==
    <<old_penalty[1], old_penalty[2], old_penalty[3], old_penalty[4]>>

\* destroy_and_repair: the repair phase for the next customer of to_destroy
RepairStep ==
    /\ pc = "repair"
    /\ Len(repair.to_destroy) > 0
    /\ \E routes \in {RepairInsert(repair.routes, At(repair.to_destroy, 0))} :
          /\ repair' = [repair EXCEPT !.routes = routes, !.to_destroy = Remove(@, 0),
                                       !.placed = [routes |-> repair.routes,
                                                   customer |-> At(repair.to_destroy, 0)]]
          /\ pc' = IF Panicked(routes) THEN "panic" ELSE pc
          /\ failure' = IF Panicked(routes) THEN Failure("route", {}) ELSE failure
    /\ UNCHANGED <<CONFIG, PENALTY_COEFF, routeVars, init, root, current, result, elite_set,
                   tabu_lists, neighborhood_idx, iteration, last_improved_iteration, adaptive,
                   edge_records, hyper, old_current, flags>>

\* destroy_and_repair returns, and the driver clears the tabu lists
RepairFinish ==
    /\ pc = "repair"
    /\ Len(repair.to_destroy) = 0
    /\ PENALTY_COEFF' = RestorePenalty(PENALTY_COEFF, repair.old_penalty)
    /\ current' = SolutionOf(repair.routes)
    /\ tabu_lists' = PerNeighborhood(<<>>)
    /\ flags' = [flags EXCEPT !.restart = SolutionOf(repair.routes)]
    /\ pc' = IF CONFIG.ejection_chain_iterations > 0 THEN "ejection" ELSE "update"
    /\ UNCHANGED <<CONFIG, routeVars, failure, init, root, result, elite_set, neighborhood_idx,
                   iteration, last_improved_iteration, adaptive, edge_records, hyper, old_current,
                   repair>>

\* One iteration of the ejection-chain loop that follows a reset
EjectStep ==
    /\ pc = "ejection"
    /\ \E found \in {Search("EjectionChain", current, flags.ejection_chain_tabu_list,
                           CONFIG.ejection_chain_iterations + 1, Cost(result))} :
       \E recorded \in {IF found.some
                        THEN RecordNewSolution(found.solution, Recorded, iteration, adaptive.segment)
                        ELSE Recorded} :
          /\ current' = found.solution
          /\ result' = recorded.result
          /\ last_improved_iteration' = recorded.last_improved_iteration
          /\ adaptive' = [adaptive EXCEPT !.last_improved_segment = recorded.last_improved_segment]
          /\ edge_records' = recorded.edge_records
          /\ elite_set' = recorded.elite_set
          /\ PENALTY_COEFF' = UpdateViolationSolution(PENALTY_COEFF, found.solution)
          /\ flags' = [flags EXCEPT !.ejected = @ + 1,
                                    !.updates = @ + 1,
                                    !.restart = found.solution,
                                    !.ejection_chain_tabu_list = found.tabu_list]
          /\ pc' = IF flags.ejected + 1 = CONFIG.ejection_chain_iterations
                   THEN "strategy" ELSE "ejection"
          /\ op' = Recording(recorded.result)
    /\ UNCHANGED <<CONFIG, route_i, route_j, route_k, results, failure, init, root, tabu_lists,
                   neighborhood_idx, iteration, hyper, old_current, repair>>

\* _update_violation_solution(&current) of an iteration without ejection chains
UpdateStep ==
    /\ pc = "update"
    /\ PENALTY_COEFF' = UpdateViolationSolution(PENALTY_COEFF, current)
    /\ flags' = [flags EXCEPT !.updates = @ + 1]
    /\ pc' = "strategy"
    /\ UNCHANGED <<CONFIG, routeVars, failure, init, root, current, result, elite_set, tabu_lists,
                   neighborhood_idx, iteration, last_improved_iteration, adaptive, edge_records,
                   hyper, old_current, repair>>

\* The end of an iteration: the neighborhood of the next one
StrategyStep ==
    /\ pc = "strategy"
    /\ pc' = "iterate"
    /\ CASE CONFIG.strategy = "Random" ->
                /\ neighborhood_idx' \in 0..Len(NEIGHBORHOODS) - 1
                /\ UNCHANGED <<current, adaptive>>
         [] CONFIG.strategy = "Cyclic" ->
                /\ neighborhood_idx' = (neighborhood_idx + 1) % Len(NEIGHBORHOODS)
                /\ UNCHANGED <<current, adaptive>>
         [] CONFIG.strategy = "Vns" ->
                /\ neighborhood_idx' = IF iteration = last_improved_iteration THEN 0
                                       ELSE (neighborhood_idx + 1) % Len(NEIGHBORHOODS)
                /\ current' = IF iteration # last_improved_iteration
                                 /\ (neighborhood_idx + 1) % Len(NEIGHBORHOODS) # 0
                              THEN old_current ELSE current
                /\ UNCHANGED adaptive
         [] CONFIG.strategy = "Adaptive" ->
                /\ adaptive' = IF flags.end_of_segment THEN SegmentWeights(adaptive) ELSE adaptive
                \* WeightedIndex samples an index of positive weight
                /\ neighborhood_idx' \in {n \in 0..Len(NEIGHBORHOODS) - 1 : At(adaptive'.weights, n) > 0}
                /\ UNCHANGED current
    /\ UNCHANGED <<CONFIG, PENALTY_COEFF, routeVars, failure, init, root, result, elite_set,
                   tabu_lists, iteration, last_improved_iteration, edge_records, hyper, old_current,
                   flags, repair>>

\* main: solution.verify() on the Solution tabu_search returned
VerifyStep ==
    /\ pc = "verify"
    /\ pc' = IF Verify(result) THEN "done" ELSE "panic"
    /\ failure' = IF Verify(result) THEN failure ELSE Failure("verify", {})
    /\ UNCHANGED <<CONFIG, PENALTY_COEFF, routeVars, init, root, current, result, elite_set,
                   tabu_lists, neighborhood_idx, iteration, last_improved_iteration, adaptive,
                   edge_records, hyper, old_current, flags, repair>>

Next ==
    \/ InitializeStart
    \/ InitializeLoop
    \/ InitializeFinish
    \/ TabuSearchStart
    \/ SearchStep
    \/ Finish
    \/ SegmentStep
    \/ RepairStep
    \/ RepairFinish
    \/ EjectStep
    \/ UpdateStep
    \/ StrategyStep
    \/ VerifyStep

Spec == InitRun /\ [][Next]_vars

-----------------------------------------------------------------------------
(* Search-level runs: sequences of calls of Neighborhood::search, each on    *)
(* the solution the call before returned, with one tabu list per operator    *)
(* (empty at the start) and one tabu_size for the whole run.                 *)

\* Largest number of calls of search in a run
MaxSearches == 3

\* Largest tabu_size of a search-level run
MaxTabuSize == 2

\* The operators of neighborhoods.rs: NEIGHBORHOODS and EjectionChain
Operators == Append(NEIGHBORHOODS, "EjectionChain")

\* One truck limited to one route, one drone limited to one customer per
\* route, and four customers a drone can serve
SingleRoutes ==
    ConfigOf([BaseInstance EXCEPT !.customers_count = 4,
                                  !.x = ByCustomer(<<0, 1, 2, 3, 4>>),
                                  !.demands = ByCustomer(<<0, 1, 1, 1, 1>>),
                                  !.dronable = ByCustomer(<<TRUE, TRUE, TRUE, TRUE, TRUE>>),
                                  !.truck = [speed |-> 1, capacity |-> 4],
                                  !.drone = [EnduranceDrone EXCEPT !.fixed_time = 8],
                                  !.waiting_time_limit = 12,
                                  !.single_truck_route = TRUE,
                                  !.single_drone_route = TRUE])

SearchConfigs == {TruckAndDrone, Unpenalized, SingleRoutes}

\* No route yet, for the vehicles a solution has once initialize has resized
\* its drone routes to drones_count
FleetRoutes == [Truck |-> EmptyRoutes(CONFIG.trucks_count), Drone |-> EmptyRoutes(CONFIG.drones_count)]

\* Every customer on one route of the first truck, in index order
OneRoute ==
    SolutionOf(PushRoute(FleetRoutes, "Truck", 0, Block("Truck", 1, CONFIG.customers_count)))

\* The routes of OneDroneEach from customer onwards
DroneEach(cloned, customer) ==
    ForRange(customer, CONFIG.customers_count + 1,
             LAMBDA c, acc : PushRoute(acc, "Drone", 0, Block("Drone", c, c)), cloned)

\* The first two customers on one route of the first truck and every other
\* customer on a route of its own of the first drone
OneDroneEach ==
    SolutionOf(DroneEach(PushRoute(FleetRoutes, "Truck", 0, Block("Truck", 1, 2)), 3))

\* The solutions a search-level run starts from
SearchStarts ==
    IF CONFIG.single_drone_route THEN {OneRoute, OneDroneEach} ELSE {OneRoute}

InitSearch ==
    /\ CONFIG \in SearchConfigs
    /\ PENALTY_COEFF = <<ONE, ONE, ONE, ONE>>
    /\ route_i = NONE
    /\ route_j = NONE
    /\ route_k = NONE
    /\ op = [name |-> "init"]
    /\ results = <<>>
    /\ pc = "search"
    /\ failure = NONE
    /\ init = NONE
    /\ root = NONE
    /\ current \in SearchStarts
    /\ result = NONE
    /\ elite_set = <<>>
    /\ tabu_lists = ForRange(0, Len(Operators), LAMBDA n, acc : Append(acc, <<>>), <<>>)
    /\ neighborhood_idx = 0
    /\ iteration = 0
    /\ last_improved_iteration = 0
    /\ adaptive = NONE
    /\ edge_records = <<>>
    /\ hyper \in {[tabu_size |-> size] : size \in 0..MaxTabuSize}
    /\ old_current = NONE
    /\ flags = NONE
    /\ repair = NONE

\* The last entry of a list
Last(list) == list[Len(list)]

\* The counts a search-level run has kept so far
Calls(last) == IF last.name = "search" THEN last ELSE [hits |-> 0, evictions |-> 0]

\* neighborhood.search(&current, &mut tabu_list, tabu_size, aspiration_cost)
\* for some operator, and for the aspiration cost of the driver when the best
\* is the current solution or for one no candidate reaches
DoSearch ==
    /\ pc = "search"
    /\ iteration < MaxSearches
    /\ \E n \in 0..Len(Operators) - 1 : \E aspiration_cost \in {Cost(current), F64_MAX} :
           \E found \in {Search(At(Operators, n), current, At(tabu_lists, n), hyper.tabu_size,
                               aspiration_cost)} :
              /\ current' = found.solution
              /\ tabu_lists' = [tabu_lists EXCEPT ![n + 1] = found.tabu_list]
              /\ neighborhood_idx' = n
              /\ op' = [name |-> "search", some |-> found.some, tabu_list |-> At(tabu_lists, n),
                        before |-> tabu_lists,
                        original |-> current,
                        aspired |-> found.aspired,
                        tabu |-> found.tabu,
                        aspiration_cost |-> aspiration_cost,
                        \* how many calls so far rotated an entry already listed, and
                        \* how many evicted the oldest entry of a full list
                        hits |-> Calls(op).hits
                                    + (IF found.some /\ Len(found.tabu_list) > 0
                                          /\ Contains(At(tabu_lists, n), Last(found.tabu_list))
                                       THEN 1 ELSE 0),
                        evictions |-> Calls(op).evictions
                                    + (IF found.some /\ Len(At(tabu_lists, n)) > 0
                                          /\ ~Contains(found.tabu_list, At(At(tabu_lists, n), 0))
                                       THEN 1 ELSE 0)]
    /\ iteration' = iteration + 1
    /\ UNCHANGED <<CONFIG, PENALTY_COEFF, route_i, route_j, route_k, results, pc, failure, init,
                   root, result, elite_set, last_improved_iteration, adaptive, edge_records, hyper,
                   old_current, flags, repair>>

NextSearch == DoSearch

SpecSearch == InitSearch /\ [][NextSearch]_vars

-----------------------------------------------------------------------------
(* Solution-level runs: Solution::new applied to route lists drawn from a   *)
(* bounded family (the routes need not partition the customers).            *)

\* Largest number of customers of a route in solution-level runs
MaxRouteCustomers == 2

SolutionConfigs ==
    {ConfigOf(BaseInstance),
     ConfigOf([BaseInstance EXCEPT !.drone = LinearDrone]),
     ConfigOf([BaseInstance EXCEPT !.waiting_time_limit = 2, !.truck = [speed |-> 1, capacity |-> 1]]),
     ConfigOf([BaseInstance EXCEPT !.single_truck_route = TRUE, !.single_drone_route = TRUE])}

\* The routes of class cls with at most MaxRouteCustomers customers, and None
RoutesOrNone(cls) ==
    {IF Len(q) = 0 THEN NONE ELSE [cls |-> cls, customers |-> <<0>> \o q \o <<0>>] :
        q \in SeqsUpTo(1..CONFIG.customers_count, MaxRouteCustomers)}

\* The Vec of the routes among r1, r2 that are not None
RouteList(r1, r2) ==
    (IF IsRoute(r1) THEN <<r1>> ELSE <<>>) \o (IF IsRoute(r2) THEN <<r2>> ELSE <<>>)

\* The penalty coefficients of the run that saves a solution: as at the start,
\* or as a search left them
SavedCoefficients == {<<ONE, ONE, ONE, ONE>>, <<(3 * ONE) \div 2, ONE, ONE, 1000 * ONE>>}

\* _serialize_routes: every route as the Vec of its customers
SerializeRoutes(vehicle_routes) ==
    ForRange(0, Len(vehicle_routes),
        LAMBDA v, acc :
            Append(acc, ForRange(0, Len(At(vehicle_routes, v)),
                            LAMBDA n, routes : Append(routes, At(At(vehicle_routes, v), n).customers),
                            <<>>)),
        <<>>)

\* _deserialize_routes: R::new on every Vec of customers
DeserializeRoutes(cls, data) ==
    ForRange(0, Len(data),
        LAMBDA v, acc :
            Append(acc, ForRange(0, Len(At(data, v)),
                            LAMBDA n, routes : Append(routes, RouteNew(cls, At(At(data, v), n))),
                            <<>>)),
        <<>>)

\* Serialize of Solution: the routes through _serialize_routes, the other
\* fields as they are
Serialize(solution) ==
    [solution EXCEPT !.truck_routes = SerializeRoutes(@), !.drone_routes = SerializeRoutes(@)]

\* Deserialize of Solution: the routes through _deserialize_routes, the other
\* fields as the file has them
Deserialize(data) ==
    [data EXCEPT !.truck_routes = DeserializeRoutes("Truck", @),
                 !.drone_routes = DeserializeRoutes("Drone", @)]

\* The files a saved solution can be read from: as serialized, or with metric
\* values written under another configuration
Persisted(solution) ==
    {Serialize(solution),
     [Serialize(solution) EXCEPT !.working_time = @ + 1, !.capacity_violation = @ + 1,
                                 !.feasible = ~@]}

\* Rebuilding that makes every route a truck route
RebuildRoutesAsTruck(cls, vehicle_routes) ==
    ForRange(0, Len(vehicle_routes),
        LAMBDA v, acc :
            Append(acc, ForRange(0, Len(At(vehicle_routes, v)),
                            LAMBDA n, routes :
                                Append(routes, RouteNew("Truck", At(At(vehicle_routes, v), n).customers)),
                            <<>>)),
        <<>>)

\* main, Commands::Evaluate: TruckRoute::new / DroneRoute::new on the
\* customers of every route of s
RebuildRoutes(cls, vehicle_routes) ==
    ForRange(0, Len(vehicle_routes),
        LAMBDA v, acc :
            Append(acc, ForRange(0, Len(At(vehicle_routes, v)),
                            LAMBDA n, routes :
                                Append(routes, RouteNew(cls, At(At(vehicle_routes, v), n).customers)),
                            <<>>)),
        <<>>)

\* main, Commands::Evaluate: Solution::new on the rebuilt routes of s
EvaluateSolution(s) ==
    SolutionNew(RebuildRoutes("Truck", s.truck_routes), RebuildRoutes("Drone", s.drone_routes))

\* main, Commands::Evaluate on the text of the file
Evaluate(data) == EvaluateSolution(Deserialize(data))

InitSolution ==
    /\ CONFIG \in SolutionConfigs
    /\ route_i = NONE
    /\ route_j = NONE
    /\ route_k = NONE
    /\ op = [name |-> "init"]
    /\ results = <<>>
    /\ PENALTY_COEFF \in SavedCoefficients
    /\ NoRun

\* Solution::new(truck_routes, drone_routes)
DoSolutionNew ==
    /\ Fresh
    /\ \E t1 \in RoutesOrNone("Truck"), t2 \in RoutesOrNone("Truck"), d1 \in RoutesOrNone("Drone") :
         LET truck_routes == <<RouteList(t1, t2)>>
             drone_routes == <<RouteList(d1, NONE)>>
         IN /\ op' = [name |-> "solution_new", truck_routes |-> truck_routes,
                      drone_routes |-> drone_routes]
            /\ results' = <<SolutionNew(truck_routes, drone_routes)>>
    /\ UNCHANGED <<CONFIG, PENALTY_COEFF, route_i, route_j, route_k, runVars>>

\* The Evaluate command, in a new process, on a file of the solution built last
DoEvaluate ==
    /\ op.name = "solution_new"
    /\ \E data \in Persisted(results[1]) :
         /\ op' = [name |-> "evaluate", saved |-> results[1], data |-> data,
                  saved_coeff |-> PENALTY_COEFF]
         /\ results' = <<Evaluate(data)>>
    /\ PENALTY_COEFF' = <<ONE, ONE, ONE, ONE>>
    /\ UNCHANGED <<CONFIG, route_i, route_j, route_k, runVars>>

\* main: solution.verify() on the Solution built last
DoVerify ==
    /\ op.name = "solution_new"
    /\ op' = [name |-> "verify", solution |-> results[1]]
    /\ results' = <<[returned |-> Verify(results[1])]>>
    /\ UNCHANGED <<CONFIG, PENALTY_COEFF, route_i, route_j, route_k, runVars>>

NextSolution ==
    \/ DoSolutionNew
    \/ DoEvaluate
    \/ DoVerify

SpecSolution == InitSolution /\ [][NextSolution]_vars

\* C7: for every Solution built by Solution::new, feasible is true exactly when
\* the energy, capacity, waiting-time and fixed-time violation totals are all zero.
C7_FeasibleIffNoViolation ==
    op.name = "solution_new" =>
        (results[1].feasible <=>
            /\ results[1].energy_violation = 0
            /\ results[1].capacity_violation = 0
            /\ results[1].waiting_time_violation = 0
            /\ results[1].fixed_time_violation = 0)

\* A solution whose only violation is the fixed-time one is built infeasible
C7_Witness ==
    /\ op.name = "solution_new"
    /\ ~results[1].feasible
    /\ results[1].fixed_time_violation > 0
    /\ results[1].energy_violation = 0
    /\ results[1].capacity_violation = 0
    /\ results[1].waiting_time_violation = 0

-----------------------------------------------------------------------------
(* Properties of route-level runs. *)

\* How many times route r serves customer c (None serves nobody)
Occurrences(r, c) == Cardinality({n \in 1..Len(r.customers) : r.customers[n] = c})

\* The multiset of customers served by the routes rs
ServedBy(rs) ==
    [c \in 1..CONFIG.customers_count |->
        ForRange(0, Len(rs), LAMBDA n, acc : acc + Occurrences(At(rs, n), c), 0)]

\* The routes of one candidate of the last operation
CandidateRoutes(cand) ==
    CASE op.name = "intra_route" -> <<cand.route>>
      [] op.name \in {"inter_route", "inter_route_extract"} -> <<cand.i, cand.j>>
      [] op.name = "inter_route_3" -> <<cand.i, cand.j, cand.k>>
      [] OTHER -> <<>>

\* The routes the last operation was applied to
OperandRoutes ==
    CASE op.name \in {"intra_route", "inter_route_extract"} -> <<route_i>>
      [] op.name = "inter_route" -> <<route_i, route_j>>
      [] op.name = "inter_route_3" -> <<route_i, route_j, route_k>>
      [] OTHER -> <<>>

\* A route slot of a candidate: None, or a route that serves somebody
RemovedOrServing(r) ==
    \/ r = NONE
    \/ IsRoute(r) /\ \E n \in 1..Len(r.customers) : r.customers[n] # 0

IsOperator == op.name \in {"intra_route", "inter_route", "inter_route_extract", "inter_route_3"}

\* C1: every candidate returned by intra_route, inter_route, inter_route_extract
\* and inter_route_3 serves exactly the multiset of customers its operand routes
\* served, and a route the move empties appears as None, never as a depot-only
\* route (and no candidate construction panics).
C1_CandidatesPreserveCustomers ==
    IsOperator =>
        \A n \in 1..Len(results) :
            /\ ServedBy(CandidateRoutes(results[n])) = ServedBy(OperandRoutes)
            /\ \A m \in 1..Len(CandidateRoutes(results[n])) :
                   RemovedOrServing(CandidateRoutes(results[n])[m])

\* A move empties route_i and hands its customers to the other routes
C1_Witness ==
    /\ op.name \in {"inter_route", "inter_route_3"}
    /\ \E n \in 1..Len(results) :
         /\ results[n].i = NONE
         /\ ServedBy(CandidateRoutes(results[n])) = ServedBy(OperandRoutes)
         /\ \E c \in 1..CONFIG.customers_count : Occurrences(route_i, c) = 1

\* The depot-bounded shape asserted by _RouteData::_construct
DepotBounded(customers) ==
    /\ Len(customers) >= 3
    /\ customers[1] = 0
    /\ customers[Len(customers)] = 0

\* Every route held by the last operation's results
ResultRoutes ==
    UNION {Range(IF op.name \in {"new", "single", "push", "pop"}
                 THEN <<results[n].route>>
                 ELSE CandidateRoutes(results[n])) : n \in 1..Len(results)}

\* C2: every Route that exists (built by new, single, push, pop or an operator)
\* starts at the depot, ends at the depot and has at least 3 entries; new
\* yields a route exactly for the sequences of that shape and panics on all
\* others, and pop on a single-customer route panics.
C2_RoutesDepotBounded ==
    /\ \A r \in ResultRoutes \cup {route_i, route_j, route_k} :
           IsRoute(r) => DepotBounded(r.customers)
    /\ op.name = "new" =>
           /\ DepotBounded(op.customers) => results[1].route = [cls |-> op.cls, customers |-> op.customers]
           /\ ~DepotBounded(op.customers) => results[1].route = PANIC
    /\ (op.name = "pop" /\ Len(route_i.customers) = 3) => results[1].route = PANIC

\* pop was called on a single-customer route and panicked
C2_Witness ==
    /\ op.name = "pop"
    /\ Len(route_i.customers) = 3
    /\ results[1].route = PANIC

-----------------------------------------------------------------------------
(* Properties of search-level runs. *)

\* No entry of the list occurs at two positions
NoDuplicates(list) == \A a, b \in 1..Len(list) : list[a] = list[b] => a = b

\* C3: after any sequence of search calls with one tabu_size, started with empty
\* lists, the tabu list of every operator holds at most tabu_size entries and
\* holds no attribute set twice.
C3_TabuListsBounded ==
    \A n \in 1..Len(tabu_lists) :
        /\ Len(tabu_lists[n]) <= hyper.tabu_size
        /\ NoDuplicates(tabu_lists[n])

\* A run in which one call took a move whose attribute was already listed, one
\* call pushed the oldest entry out, and the list of the last call is full
C3_Witness ==
    /\ op.name = "search"
    /\ op.hits > 0
    /\ op.evictions > 0
    /\ hyper.tabu_size > 0
    /\ Len(At(tabu_lists, neighborhood_idx)) = hyper.tabu_size

-----------------------------------------------------------------------------
(* Properties of runs of main. *)

\* The program is in the driver loop of tabu_search
InDriverLoop == pc \in {"iterate", "segment", "repair", "ejection", "update", "strategy"}

\* tabu_search has set the best-so-far solution
HasResult == InDriverLoop \/ pc \in {"verify", "done"}

\* C4: at every point of the driver loop the elite set holds at most
\* max_elite_size solutions, whatever max_elite_size is (0 included).
C4_EliteSetBounded ==
    InDriverLoop => Len(elite_set) <= CONFIG.max_elite_size

\* C5: when a new best is recorded while the elite set holds max_elite_size > 0
\* members, the elite set afterwards is the old one without exactly one member,
\* a member at the least hamming distance from the new best, followed by the
\* new best.
C5_EvictsLeastDiverse ==
    [][(/\ HasResult
        /\ result' # result
        /\ CONFIG.max_elite_size > 0
        /\ Len(elite_set) = CONFIG.max_elite_size)
       => \E idx \in 0..Len(elite_set) - 1 :
              /\ \A k \in 0..Len(elite_set) - 1 :
                     HammingDistance(At(elite_set, idx), result')
                         <= HammingDistance(At(elite_set, k), result')
              /\ elite_set' = Append(Remove(elite_set, idx), result')]_vars

\* A new best has just been recorded into a full elite set of two members, and
\* the member that went is the younger one: the root is still there
C5_Witness ==
    /\ pc = "segment"
    /\ op.name = "record"
    /\ op.improved
    /\ op.full
    /\ CONFIG.max_elite_size = 2
    /\ elite_set = <<root, result>>

\* C6: each of the four penalty coefficients is within [1, 1000] in every
\* state, during destroy_and_repair included, and one more adaptation step
\* (either way) leaves it there.
C6_PenaltiesWithinBounds ==
    \A n \in 0..3 :
        /\ ONE <= penalty_coeff(n)
        /\ penalty_coeff(n) <= 1000 * ONE
        /\ \A violation \in {0, 1} :
               /\ ONE <= UpdateViolation(penalty_coeff(n), violation)
               /\ UpdateViolation(penalty_coeff(n), violation) <= 1000 * ONE

\* destroy_and_repair is repairing at the coefficients 1000, having put off
\* a coefficient that the adaptation had raised
C6_Witness ==
    /\ pc = "repair"
    /\ \A n \in 0..3 : penalty_coeff(n) = 1000 * ONE
    /\ \E n \in 0..3 : At(repair.old_penalty, n) > ONE

\* C8: in tabu_search started from a feasible root the best-so-far solution is
\* feasible and its working time is at most the root's at every point, the
\* return included; and the best is only ever replaced by a feasible solution
\* whose cost plus the tolerance is below the cost of the best it replaces.
C8_BestNeverWorse ==
    /\ []((HasResult /\ root.feasible)
            => (result.feasible /\ result.working_time <= root.working_time))
    /\ [][(HasResult /\ result' # result)
            => (result'.feasible /\ PlusTolerance(Cost(result')) < Cost(result))]_vars

\* A run that returned a solution better than its feasible root
C8_Witness ==
    /\ pc = "done"
    /\ root.feasible
    /\ result.working_time < root.working_time

\* Scenario A: one truck, no drone, three customers on a line
IsScenarioA ==
    /\ CONFIG.trucks_count = 1
    /\ CONFIG.drones_count = 0
    /\ CONFIG.customers_count = 3

\* The solution of one truck route that visits the customers in this order
OneRouteSolution(order) ==
    SolutionOf(PushRoute(NoRoutes, "Truck", 0, RouteNew("Truck", <<0>> \o order \o <<0>>)))

\* The orders of the customers of scenario A by their distance from the depot
\* (two of them when two customers are as far)
DistanceOrders ==
    {order \in Orders(<<1, 2, 3>>) :
        \A n \in 1..2 : TruckDistance(0, order[n]) <= TruckDistance(0, order[n + 1])}

\* The truck can serve the three customers on one route in distance order
DistanceOrderFeasible == \A order \in DistanceOrders : OneRouteSolution(order).feasible

\* A run of scenario A, on an instance the route in distance order is feasible
\* for, has searched for at least one iteration and has ended
ScenarioAEnded ==
    /\ pc = "done"
    /\ IsScenarioA
    /\ DistanceOrderFeasible
    /\ iteration > 0

Overweight ==
    {customer \in 1..CONFIG.customers_count :
        /\ CONFIG.demands[customer] > CONFIG.truck.capacity
        /\ CONFIG.demands[customer] > DroneCapacity(CONFIG.drone)}

\* C10: on an instance with such a customer initialize panics before it builds
\* any route, and the panic names such a customer.
C10_OverweightCustomerNamed ==
    (Overweight # {} /\ pc # "initialize") =>
        /\ pc = "panic"
        /\ init = NONE
        /\ failure.customers # {}
        /\ failure.customers \subseteq Overweight

\* tabu_search was told not to search: --dry-run, or --fix-iteration 0
NoSearchConfigured ==
    CONFIG.dry_run \/ (CONFIG.fix_iteration.some /\ CONFIG.fix_iteration.value = 0)

\* C11: with fix_iteration = 0 or dry_run, tabu_search performs no iteration and
\* returns the root it was given, routes and metrics alike; the elite set holds
\* nothing but the root it starts with, the tabu lists stay empty and the
\* penalty coefficients keep their initial values.
C11_NoSearchReturnsRoot ==
    NoSearchConfigured =>
        /\ iteration = 0
        /\ pc \notin {"segment", "repair", "ejection", "update", "strategy", "diverge"}
        /\ (pc \in {"verify", "done"} \/ (pc = "panic" /\ failure.kind = "verify")) => result = root
        /\ elite_set \in {<<>>, <<root>>}
        /\ \A n \in 1..Len(tabu_lists) : tabu_lists[n] = <<>>
        /\ PENALTY_COEFF = <<ONE, ONE, ONE, ONE>>

\* A run with fix_iteration = 0 that went through the set-up of the search and
\* returned the root
C11_Witness ==
    /\ CONFIG.fix_iteration.some /\ CONFIG.fix_iteration.value = 0
    /\ ~CONFIG.dry_run
    /\ pc = "done"
    /\ result = root
    /\ elite_set = <<root>>
    /\ Len(tabu_lists) = Len(NEIGHBORHOODS)

\* The places where the routes of some vehicles serve a customer: the vehicle,
\* the route and the position in the route
Visits(vehicle_routes, c) ==
    {place \in UNION {UNION {{<<v, n, i>> : i \in 2..Len(vehicle_routes[v][n].customers) - 1} :
                                 n \in 1..Len(vehicle_routes[v])} :
                          v \in 1..Len(vehicle_routes)} :
        vehicle_routes[place[1]][place[2]].customers[place[3]] = c}

\* The routes of some vehicles, each as often as the vehicles hold it
RouteBag(vehicle_routes) ==
    LET places == UNION {{<<v, n>> : n \in 1..Len(vehicle_routes[v])} : v \in 1..Len(vehicle_routes)}
        held == {vehicle_routes[place[1]][place[2]] : place \in places}
    IN [route \in held |->
            Cardinality({place \in places : vehicle_routes[place[1]][place[2]] = route})]

\* Solution::initialize has returned
Initialized == root # NONE

\* C12: the solution initialize returns is feasible and passes verify(): every
\* customer is served exactly once, every route starts and ends at the depot,
\* no truck has two routes under single_truck_route, no drone route has two
\* customers under single_drone_route, and drones_count drones hold exactly
\* the drone routes that were constructed.
C12_InitializeReturnsFeasible ==
    Initialized =>
        /\ root.feasible
        /\ Verify(root)
        /\ \A c \in 1..CONFIG.customers_count :
               Cardinality(Visits(root.truck_routes, c)) + Cardinality(Visits(root.drone_routes, c)) = 1
        /\ \A route \in DOMAIN RouteBag(root.truck_routes) \cup DOMAIN RouteBag(root.drone_routes) :
               DepotBounded(route.customers)
        /\ CONFIG.single_truck_route =>
               \A v \in 1..Len(root.truck_routes) : Len(root.truck_routes[v]) <= 1
        /\ CONFIG.single_drone_route =>
               \A route \in DOMAIN RouteBag(root.drone_routes) : Len(route.customers) = 3
        /\ Len(root.drone_routes) = CONFIG.drones_count
        /\ RouteBag(root.drone_routes) = RouteBag(init.routes.Drone)

\* initialize returned a solution in which the drone routes built for the
\* clusters went to another number of drones
C12_Witness ==
    /\ Initialized
    /\ CONFIG.drones_count # CONFIG.trucks_count
    /\ Len(init.routes.Drone) # Len(root.drone_routes)
    /\ \E v \in 1..Len(root.drone_routes) : Len(root.drone_routes[v]) > 0
    /\ \E v \in 1..Len(root.truck_routes) : Len(root.truck_routes[v]) > 0
    /\ CONFIG.single_drone_route

C14_FixedIterationRunsAll ==
    (CONFIG.fix_iteration.some /\ ~CONFIG.dry_run) =>
        /\ (pc \in {"verify", "done"} \/ (pc = "panic" /\ failure.kind = "verify")) =>
               iteration = CONFIG.fix_iteration.value
        /\ flags # NONE => ~flags.reset
        /\ pc \notin {"repair", "ejection", "diverge"}

\* tabu_search runs until the elite set is exhausted
Unbounded == ~CONFIG.fix_iteration.some /\ ~CONFIG.dry_run

\* C15: in unbounded mode the driver loop always comes to its end (it never
\* enters a loop that cannot end), and it ends only at a reset that finds the
\* elite set empty.
C15_UnboundedTerminates ==
    Unbounded =>
        /\ pc # "diverge"
        /\ pc \in {"verify", "done"} => (flags.reset /\ Len(elite_set) = 0)

\* The customers a route slot serves (None serves nobody)
ServedSet(r) == IF IsRoute(r) THEN {r.customers[n] : n \in 2..Len(r.customers) - 1} ELSE {}

\* The number of customers a route slot serves
ServedCount(r) == IF IsRoute(r) THEN Len(r.customers) - 2 ELSE 0

\* The candidates of a.inter_route(b, Move10) as pairs (new a, new b)
Move10Pairs(a, b) ==
    {<<InterRoute(a, b, "Move10")[n].i, InterRoute(a, b, "Move10")[n].j>> :
        n \in 1..Len(InterRoute(a, b, "Move10"))}

\* The candidates of b.inter_route(a, Move10) as pairs (new a, new b)
Move10PairsBack(a, b) ==
    {<<InterRoute(b, a, "Move10")[n].j, InterRoute(b, a, "Move10")[n].i>> :
        n \in 1..Len(InterRoute(b, a, "Move10"))}

\* C16: every candidate of I.inter_route(J, Move10) takes exactly one customer
\* from I (which shrinks by one, or disappears) and gives it to J (which grows
\* by one), so that as pairs (new I, new J) the candidates of
\* I.inter_route(J, Move10) and of J.inter_route(I, Move10) have nothing in common.
C16_Move10OneWay ==
    (op.name = "inter_route" /\ op.neighborhood = "Move10") =>
        /\ \A n \in 1..Len(results) :
               /\ ServedCount(results[n].i) = ServedCount(route_i) - 1
               /\ results[n].i = NONE <=> ServedCount(route_i) = 1
               /\ ServedCount(results[n].j) = ServedCount(route_j) + 1
               /\ \E c \in ServedSet(route_i) :
                      /\ ServedSet(results[n].i) = ServedSet(route_i) \ {c}
                      /\ ServedSet(results[n].j) = ServedSet(route_j) \cup {c}
        /\ results = InterRoute(route_i, route_j, "Move10")
        /\ Move10Pairs(route_i, route_j) \cap Move10PairsBack(route_i, route_j) = {}

\* Two routes of two customers each, with candidates in both directions
C16_Witness ==
    /\ op.name = "inter_route" /\ op.neighborhood = "Move10"
    /\ ServedCount(route_i) = 2
    /\ ServedCount(route_j) = 2
    /\ Move10Pairs(route_i, route_j) # {}
    /\ Move10PairsBack(route_i, route_j) # {}
    /\ Move10Pairs(route_i, route_j) # Move10PairsBack(route_i, route_j)

\* Every customer is an interior customer of exactly one route, the depot of
\* none, every route starts and ends with the depot, and the limits of
\* single_truck_route and single_drone_route are kept
WellFormed(solution) ==
    /\ \A c \in 1..CONFIG.customers_count :
           Cardinality(Visits(solution.truck_routes, c)) + Cardinality(Visits(solution.drone_routes, c)) = 1
    /\ Visits(solution.truck_routes, 0) \cup Visits(solution.drone_routes, 0) = {}
    /\ \A route \in DOMAIN RouteBag(solution.truck_routes) \cup DOMAIN RouteBag(solution.drone_routes) :
           /\ Len(route.customers) >= 1
           /\ route.customers[1] = 0
           /\ route.customers[Len(route.customers)] = 0
    /\ CONFIG.single_truck_route =>
           \A v \in 1..Len(solution.truck_routes) : Len(solution.truck_routes[v]) <= 1
    /\ CONFIG.single_drone_route =>
           \A route \in DOMAIN RouteBag(solution.drone_routes) : Len(route.customers) = 3

\* C17: verify() returns on a Solution exactly when every customer is an
\* interior customer of exactly one route, the depot of none, every route is
\* depot-bounded, no truck has two routes under single_truck_route and every
\* drone route has one customer under single_drone_route; otherwise it panics.
C17_VerifyIffWellFormed ==
    op.name = "verify" => (results[1].returned <=> WellFormed(op.solution))

\* verify() returned on a solution of one truck route and one drone route
\* under both limits
C17_Witness ==
    /\ op.name = "verify"
    /\ results[1].returned
    /\ CONFIG.single_truck_route /\ CONFIG.single_drone_route
    /\ Len(At(op.solution.truck_routes, 0)) = 1
    /\ Len(At(op.solution.drone_routes, 0)) = 1

\* C18: search never returns a candidate whose tabu attribute set, taken as a
\* sorted set, is in the tabu list the call was given, unless the candidate is
\* feasible and its cost is below aspiration_cost.
C18_TabuOrAspiration ==
    (op.name = "search" /\ op.some /\ Contains(op.tabu_list, op.tabu)) =>
        (current.feasible /\ Cost(current) < op.aspiration_cost)

\* A route slot is not a drone route that serves a customer no drone may serve
DronesServeDronable(r) ==
    (IsRoute(r) /\ r.cls = "Drone") => \A c \in ServedSet(r) : CONFIG.dronable[c]

\* C19: no candidate of any operator, for routes whose drone routes serve
\* dronable customers only, puts a customer that is not dronable on a drone
\* route: every customer that crosses into a drone route is checked against
\* the servable predicate of drones.
C19_CandidatesKeepDronable ==
    (IsOperator /\ \A m \in 1..Len(OperandRoutes) : DronesServeDronable(OperandRoutes[m])) =>
        \A n \in 1..Len(results) :
            \A m \in 1..Len(CandidateRoutes(results[n])) :
                DronesServeDronable(CandidateRoutes(results[n])[m])

\* A solution keeps the limits of the configuration: with single_truck_route
\* no truck has more than one route, with single_drone_route every drone
\* route serves exactly one customer
RespectsConfiguration(solution) ==
    /\ CONFIG.single_truck_route =>
           \A t \in 1..Len(solution.truck_routes) : Len(solution.truck_routes[t]) <= 1
    /\ CONFIG.single_drone_route =>
           \A d \in 1..Len(solution.drone_routes) :
               \A r \in 1..Len(solution.drone_routes[d]) :
                   ServedCount(solution.drone_routes[d][r]) = 1

\* C20: from a solution that respects the configuration, the solution search
\* returns, for the six primary operators and for EjectionChain, respects it.
C20_SearchRespectsConfiguration ==
    (op.name = "search" /\ RespectsConfiguration(op.original)) => RespectsConfiguration(current)

\* C21: when a candidate evaluated in the intra-route set or in the inter-route
\* set of a call of search is feasible and costs less than aspiration_cost, the
\* solution the call returns is feasible and costs less than aspiration_cost.
C21_AspiredCandidateWins ==
    (op.name = "search" /\ op.aspired) =>
        (op.some /\ current.feasible /\ Cost(current) < op.aspiration_cost)

\* C22: in every iteration of the driver loop, an iteration with a reset and
\* a burst of EjectionChain searches included, the penalty adaptation is
\* applied exactly once to the four coefficients, with the violations of the
\* current solution at the end of the iteration.
C22_PenaltiesAdaptedOnce ==
    pc = "strategy" =>
        /\ flags.updates = 1
        /\ PENALTY_COEFF = UpdateViolationSolution(flags.coeff, current)

\* The directed edges of consecutive customers, depot included, of one route
EdgesOf(r) == {<<r.customers[i], r.customers[i + 1]>> : i \in 1..Len(r.customers) - 1}

\* The directed edges of the routes of every vehicle of vehicle_routes
RouteEdges(vehicle_routes) ==
    UNION {UNION {EdgesOf(vehicle_routes[v][n]) : n \in 1..Len(vehicle_routes[v])} :
              v \in 1..Len(vehicle_routes)}

\* edge_records[a][b] is at most the working time of solution on every edge of edges
EdgesRecorded(edges, solution) ==
    \A e \in edges : At(At(edge_records, e[1]), e[2]) <= solution.working_time

\* C23: once a solution has become the new global best, the edge records of
\* every directed edge of consecutive customers of its truck routes and of its
\* drone routes are at most its working time.
C23_NewBestEdgesRecorded ==
    (pc \in {"segment", "strategy"} /\ op.name = "record" /\ op.improved) =>
        /\ EdgesRecorded(RouteEdges(result.truck_routes), result)
        /\ EdgesRecorded(RouteEdges(result.drone_routes), result)

\* The classes of vehicle a destroyed customer may be placed on
EligibleClasses(customer) == IF CONFIG.dronable[customer] THEN {"Truck", "Drone"} ELSE {"Truck"}

\* The routes after the customer is appended to a vehicle as a new route of
\* its own, for every vehicle that may take one more route
AppendPlacements(routes, customer) ==
    {PushRoute(routes, pl[1], pl[2], RouteSingle(pl[1], customer)) :
        pl \in {q \in UNION {{c} \X (0..Len(routes[c]) - 1) : c \in EligibleClasses(customer)} :
                   RepairAppends(routes, q[1], q[2])}}

\* The places of a vehicle's routes: before the first served customer,
\* between two consecutive customers, and after the last served customer
InsidePlaces(routes, cls, vehicle) ==
    UNION {{<<cls, vehicle, route, i>> : i \in 1..Len(At(At(routes[cls], vehicle), route).customers) - 1} :
              route \in 0..Len(At(routes[cls], vehicle)) - 1}

\* The routes after the customer is inserted at a place of an existing route
InsidePlacements(routes, customer) ==
    {SetRoute(routes, pl[1], pl[2], pl[3],
              RouteNew(pl[1], Insert(At(At(routes[pl[1]], pl[2]), pl[3]).customers, pl[4], customer))) :
        pl \in UNION {InsidePlaces(routes, q[1], q[2]) :
                         q \in {w \in UNION {{c} \X (0..Len(routes[c]) - 1) : c \in EligibleClasses(customer)} :
                                   RepairInserts(w[1])}}}

\* Every placement of the customer on the eligible vehicles
Placements(routes, customer) ==
    AppendPlacements(routes, customer) \cup InsidePlacements(routes, customer)

\* A customer has just been placed by the repair phase
Placed == pc = "repair" /\ repair.placed # NONE

\* C24: the placement the repair phase applies to a destroyed customer has
\* the least cost of all placements on the eligible vehicles: a new route of
\* its own, and every position of every existing route, the one after the last
\* served customer included.
C24_RepairPlacesCheapest ==
    Placed =>
        \A placement \in Placements(repair.placed.routes, repair.placed.customer) :
            Cost(SolutionOf(repair.routes)) <= Cost(SolutionOf(placement))

\* The repair phase has placed every destroyed customer: destroy_and_repair
\* is about to return Solution::new of the routes
Repaired == pc = "repair" /\ Len(repair.to_destroy) = 0

\* The customers some drone route of the solution serves
OnDrone(solution) ==
    {c \in 1..CONFIG.customers_count : Visits(solution.drone_routes, c) # {}}

\* C25: from a solution that passes verify (and at least one truck),
\* destroy_and_repair returns a solution that passes verify: every customer is
\* served exactly once, no route is empty, the numbers of trucks and of drones
\* are unchanged, a customer is put on a drone only if it is dronable, and
\* single_truck_route and single_drone_route are respected.
C25_RepairKeepsVerified ==
    (Repaired /\ Verify(repair.self) /\ CONFIG.trucks_count >= 1) =>
        /\ Verify(SolutionOf(repair.routes))
        /\ WellFormed(SolutionOf(repair.routes))
        /\ \A route \in DOMAIN RouteBag(repair.routes.Truck) \cup DOMAIN RouteBag(repair.routes.Drone) :
               ServedCount(route) >= 1
        /\ Len(repair.routes.Truck) = Len(repair.self.truck_routes)
        /\ Len(repair.routes.Drone) = Len(repair.self.drone_routes)
        /\ \A c \in OnDrone(SolutionOf(repair.routes)) \cap repair.destroyed : CONFIG.dronable[c]
        /\ RespectsConfiguration(SolutionOf(repair.routes))

\* A solution that passes verify was repaired, and a destroyed customer was
\* put on a drone
C25_Witness ==
    /\ Repaired
    /\ Verify(repair.self)
    /\ CONFIG.trucks_count >= 1
    /\ OnDrone(SolutionOf(repair.routes)) \cap repair.destroyed # {}

\* An iteration in which a reset restarted from an elite member has ended
AfterRestart == pc = "iterate" /\ flags # NONE /\ flags.reset

\* C26: after a reset with a non-empty elite set, under every strategy, the
\* solution the next iteration searches is the destroy-and-repair output of the
\* elite member popped, changed only by the EjectionChain moves of the burst.
C26_RestartIsSearched == AfterRestart => current = flags.restart


-----------------------------------------------------------------------------
\* A list without the entries equal to x, the others in their order
Without(list, x) == SelectSeq(list, LAMBDA entry : entry # x)

\* The tabu list of the operator searched last, before and after the call
SearchedBefore == At(op.before, neighborhood_idx)

SearchedAfter == At(tabu_lists, neighborhood_idx)

\* C27: after a search with tabu_size >= 1 that returns a candidate, the
\* sorted attribute of the chosen move is the last entry of the operator's
\* tabu list: an attribute already listed moves to the end and the other
\* entries keep their order, an absent one is appended and the oldest entry
\* alone is removed when the list then exceeds tabu_size. A search without a
\* candidate leaves the list as it was, and the lists of the other operators
\* are never modified.
C27_TabuListUpdated ==
    (op.name = "search" /\ hyper.tabu_size >= 1) =>
        /\ \A n \in 0..Len(Operators) - 1 :
               n # neighborhood_idx => At(tabu_lists, n) = At(op.before, n)
        /\ ~op.some => SearchedAfter = SearchedBefore
        /\ op.some =>
               /\ Len(SearchedAfter) >= 1
               /\ Last(SearchedAfter) = op.tabu
               /\ IF Contains(SearchedBefore, op.tabu)
                  THEN SearchedAfter = Append(Without(SearchedBefore, op.tabu), op.tabu)
                  ELSE IF Len(SearchedBefore) + 1 > hyper.tabu_size
                  THEN SearchedAfter = Append(Tail(SearchedBefore), op.tabu)
                  ELSE SearchedAfter = Append(SearchedBefore, op.tabu)

\* A search promoted an attribute that was listed before the last entry
C27_Witness ==
    /\ op.name = "search"
    /\ hyper.tabu_size >= 1
    /\ op.some
    /\ Contains(SearchedBefore, op.tabu)
    /\ Position(SearchedBefore, op.tabu) < Len(SearchedBefore) - 1


-----------------------------------------------------------------------------
\* destroy_and_repair has returned and nothing of the iteration has run since
Returned ==
    /\ pc \in {"ejection", "update"}
    /\ flags.reset
    /\ flags.restart # NONE
    /\ flags.updates = 0

\* The coefficients the repair phase runs under
Forced == <<1000 * ONE, 1000 * ONE, 1000 * ONE, 1000 * ONE>>

\* C28: destroy_and_repair leaves the four penalty coefficients at their
\* values of the call entry: they are 1000 while the repair phase places
\* customers and are restored when the function returns.
C28_PenaltiesRestored ==
    /\ pc = "repair" => (PENALTY_COEFF = Forced /\ repair.old_penalty = flags.coeff)
    /\ Returned => PENALTY_COEFF = flags.coeff

\* destroy_and_repair has returned to coefficients the search had adapted
C28_Witness ==
    /\ Returned
    /\ PENALTY_COEFF # Forced
    /\ \E i \in 1..4 : PENALTY_COEFF[i] # ONE
    /\ repair.placed # NONE


-----------------------------------------------------------------------------
\* The selection loop of the reset of this iteration has ended
Selected == pc = "repair" /\ repair.placed = NONE

\* C29: for every customer count N >= 1 and every destroy_rate in [0, 1] the
\* selection loop of destroy_and_repair ends, with floor(N x destroy_rate)
\* distinct customers of 1..N: the ranks r * r / N, r drawn from 0..N - 1, are
\* enough to fill the requested count.
C29_SelectionTerminates ==
    /\ pc # "diverge"
    /\ Selected =>
           /\ Cardinality(repair.destroyed) = DestroyCount
           /\ repair.destroyed \subseteq 1..CONFIG.customers_count


-----------------------------------------------------------------------------
\* C30: in the solution Solution::initialize returns every customer on a
\* drone route is one CONFIG.dronable allows on a drone: the initializer
\* never opens or extends a drone route with another customer, the customer
\* that seeds the drone state of a cluster included.
C30_InitializeKeepsDronable ==
    (Initialized /\ pc = "tabu_search") => \A c \in OnDrone(root) : CONFIG.dronable[c]

=============================================================================
